---- MODULE Spec2Model ----
(***************************************************************************)
(* A model of the lock codec (components/txn_types/src/lock.rs) and of     *)
(* the time codec (components/tidb_query_datatype/src/codec/mysql/time).   *)
(*                                                                         *)
(* Bytes are naturals in 0..255 and byte strings are sequences of bytes.   *)
(* A u64 is kept at its full width as four 16-bit limbs, most significant  *)
(* first, so that u64::MAX, the ten-byte varint and the wrap-around of the *)
(* arithmetic are the ones of the program.                                 *)
(***************************************************************************)
EXTENDS Integers, Sequences, FiniteSets, TLC

VARIABLES
    lock,       \* the Lock under construction (struct Lock)
    buf,        \* the byte slice handed to Lock::parse
    parsed,     \* the outcome of Lock::parse(buf)
    checked,    \* the outcome of the last conflict check and its arguments
    pc,         \* position of the caller
    ctx,        \* the EvalContext of the time codec: SQL mode, flags, time zone
    time,       \* the Time value at hand
    aux,        \* the argument of the next time operation
    out         \* the outcome of the last time operation

vars == <<lock, buf, parsed, checked, pc, ctx, time, aux, out>>

\* the time codec is not in use
NoCtx == [tag |-> "none"]

NoTime == [tag |-> "none"]

NoAux == [tag |-> "none"]

NoOut == [tag |-> "none"]

TimeIdle == ctx = NoCtx /\ time = NoTime /\ aux = NoAux /\ out = NoOut

----------------------------------------------------------------------------
(* u64 as four 16-bit limbs, most significant first *)

LimbBase == 65536

U64(n) == <<0, 0, n \div LimbBase, n % LimbBase>>

U64_ZERO == <<0, 0, 0, 0>>

U64_MAX == <<65535, 65535, 65535, 65535>>

U64Lt(x, y) ==
    \E i \in 1..4 : /\ x[i] < y[i]
                    /\ \A j \in 1..(i - 1) : x[j] = y[j]

U64Gt(x, y) == U64Lt(y, x)

\* x >> 7
U64Shr7(x) ==
    LET c1 == x[1]
        c2 == (c1 % 128) * LimbBase + x[2]
        c3 == (c2 % 128) * LimbBase + x[3]
        c4 == (c3 % 128) * LimbBase + x[4]
    IN  <<c1 \div 128, c2 \div 128, c3 \div 128, c4 \div 128>>

\* (x << 7) | g, wrapping at 2^64, for g < 128
U64Shl7Or(x, g) ==
    LET c4 == x[4] * 128 + g
        c3 == x[3] * 128 + (c4 \div LimbBase)
        c2 == x[2] * 128 + (c3 \div LimbBase)
        c1 == x[1] * 128 + (c2 \div LimbBase)
    IN  <<c1 % LimbBase, c2 % LimbBase, c3 % LimbBase, c4 % LimbBase>>

\* x + x, wrapping at 2^64
U64Double(x) ==
    LET c4 == x[4] * 2
        c3 == x[3] * 2 + (c4 \div LimbBase)
        c2 == x[2] * 2 + (c3 \div LimbBase)
        c1 == x[1] * 2 + (c2 \div LimbBase)
    IN  <<c1 % LimbBase, c2 % LimbBase, c3 % LimbBase, c4 % LimbBase>>

\* x >> 1
U64Half(x) ==
    LET c1 == x[1]
        c2 == (c1 % 2) * LimbBase + x[2]
        c3 == (c2 % 2) * LimbBase + x[3]
        c4 == (c3 % 2) * LimbBase + x[4]
    IN  <<c1 \div 2, c2 \div 2, c3 \div 2, c4 \div 2>>

\* a u64 used as a length or a count: its value when below 2^30, and
\* Huge (larger than any slice of the model) otherwise
Huge == 1073741824

as_usize(x) ==
    IF x[1] = 0 /\ x[2] = 0 /\ x[3] < 16384 THEN x[3] * LimbBase + x[4] ELSE Huge

----------------------------------------------------------------------------
(* byte primitives of tikv_util::codec *)

MAX_VAR_U64_LEN == 10

Drop(b, n) == SubSeq(b, n + 1, Len(b))

Take(b, n) == SubSeq(b, 1, n)

\* number::encode_u64: fixed width, eight bytes
encode_u64(x) ==
    << x[4] % 256, x[4] \div 256, x[3] % 256, x[3] \div 256,
       x[2] % 256, x[2] \div 256, x[1] % 256, x[1] \div 256 >>

\* number::decode_u64: [ok, val, rest]
decode_u64(b) ==
    IF Len(b) < 8
    THEN [ok |-> FALSE, val |-> U64_ZERO, rest |-> b]
    ELSE [ok |-> TRUE,
          val |-> << b[8] * 256 + b[7], b[6] * 256 + b[5],
                     b[4] * 256 + b[3], b[2] * 256 + b[1] >>,
          rest |-> Drop(b, 8)]

\* number::encode_var_u64: seven bits a byte, least significant group first,
\* the high bit set on every byte but the last
RECURSIVE encode_var_u64(_)
encode_var_u64(x) ==
    IF x[1] = 0 /\ x[2] = 0 /\ x[3] = 0 /\ x[4] < 128
    THEN <<x[4]>>
    ELSE <<(x[4] % 128) + 128>> \o encode_var_u64(U64Shr7(x))

\* the index of the first byte below 0x80 among the first ten, or 0
VarEnd(b) ==
    LET n == IF Len(b) < MAX_VAR_U64_LEN THEN Len(b) ELSE MAX_VAR_U64_LEN
        S == {i \in 1..n : b[i] < 128}
    IN  IF S = {} THEN 0 ELSE CHOOSE i \in S : \A j \in S : i <= j

RECURSIVE VarValue(_, _)
VarValue(b, i) ==
    IF i = 0 THEN U64_ZERO ELSE U64Shl7Or(VarValue(b, i - 1), b[i] % 128)

\* number::decode_var_u64: [ok, val, rest]; fails at the end of input and
\* when the tenth byte carries more than the one bit that is left
decode_var_u64(b) ==
    LET e == VarEnd(b)
    IN  IF e = 0 \/ (e = MAX_VAR_U64_LEN /\ b[e] > 1)
        THEN [ok |-> FALSE, val |-> U64_ZERO, rest |-> b]
        ELSE [ok |-> TRUE,
              val |-> VarValue([i \in 1..e |-> b[e + 1 - i]], e),
              rest |-> Drop(b, e)]

\* bytes::encode_compact_bytes: the length as a signed (zigzag) varint,
\* then the bytes
encode_compact_bytes(k) == encode_var_u64(U64Double(U64(Len(k)))) \o k

\* bytes::decode_compact_bytes: [ok, val, rest]
decode_compact_bytes(b) ==
    LET r == decode_var_u64(b)
        \* zigzag: an odd value is a negative length, huge as usize
        n == IF r.val[4] % 2 = 1 THEN Huge ELSE as_usize(U64Half(r.val))
    IN  IF ~r.ok \/ Len(r.rest) < n
        THEN [ok |-> FALSE, val |-> <<>>, rest |-> b]
        ELSE [ok |-> TRUE, val |-> Take(r.rest, n), rest |-> Drop(r.rest, n)]

----------------------------------------------------------------------------
(* struct Lock and its builders *)

FLAG_PUT == 80
FLAG_DELETE == 68
FLAG_LOCK == 76
FLAG_PESSIMISTIC == 83

SHORT_VALUE_PREFIX == 118
FOR_UPDATE_TS_PREFIX == 102
TXN_SIZE_PREFIX == 116
MIN_COMMIT_TS_PREFIX == 99
ASYNC_COMMIT_PREFIX == 97
ROLLBACK_TS_PREFIX == 114
LAST_CHANGE_PREFIX == 108
TXN_SOURCE_PREFIX == 115
PESSIMISTIC_LOCK_WITH_CONFLICT_PREFIX == 70
GENERATION_PREFIX == 103

LockType == {"Put", "Delete", "Lock", "Pessimistic"}

\* LockType::to_u8
to_u8(t) ==
    CASE t = "Put" -> FLAG_PUT
      [] t = "Delete" -> FLAG_DELETE
      [] t = "Lock" -> FLAG_LOCK
      [] t = "Pessimistic" -> FLAG_PESSIMISTIC

\* LockType::from_u8: Some(type) as <<type>>, None as <<>>
from_u8(b) ==
    CASE b = FLAG_PUT -> <<"Put">>
      [] b = FLAG_DELETE -> <<"Delete">>
      [] b = FLAG_LOCK -> <<"Lock">>
      [] b = FLAG_PESSIMISTIC -> <<"Pessimistic">>
      [] OTHER -> <<>>

\* Option<T>: None and Some(v)
None == <<>>

Some(v) == <<v>>

\* enum LastChange
LastChangeUnknown == [kind |-> "Unknown", ts |-> U64_ZERO, versions |-> U64_ZERO]

LastChangeNotExist == [kind |-> "NotExist", ts |-> U64_ZERO, versions |-> U64_ZERO]

LastChangeExist(ts, versions) == [kind |-> "Exist", ts |-> ts, versions |-> versions]

\* LastChange::to_parts
to_parts(c) ==
    CASE c.kind = "Unknown" -> <<U64_ZERO, U64_ZERO>>
      [] c.kind = "NotExist" -> <<U64_ZERO, U64(1)>>
      [] c.kind = "Exist" -> <<c.ts, c.versions>>

\* LastChange::from_parts
from_parts(ts, versions) ==
    IF ts # U64_ZERO THEN LastChangeExist(ts, versions)
    ELSE IF versions # U64_ZERO THEN LastChangeNotExist
    ELSE LastChangeUnknown

\* Lock::new
LockNew(lock_type, primary, ts, ttl, short_value, for_update_ts, txn_size, min_commit_ts, is_locked_with_conflict) ==
    [ lock_type |-> lock_type,
      primary |-> primary,
      ts |-> ts,
      ttl |-> ttl,
      short_value |-> short_value,
      for_update_ts |-> for_update_ts,
      txn_size |-> txn_size,
      min_commit_ts |-> min_commit_ts,
      use_async_commit |-> FALSE,
      use_one_pc |-> FALSE,
      secondaries |-> <<>>,
      rollback_ts |-> <<>>,
      last_change |-> LastChangeUnknown,
      txn_source |-> U64_ZERO,
      is_locked_with_conflict |-> is_locked_with_conflict,
      generation |-> U64_ZERO ]

\* Lock::use_async_commit
use_async_commit(l, secondaries) ==
    [l EXCEPT !.use_async_commit = TRUE, !.secondaries = secondaries]

\* Lock::with_rollback_ts
with_rollback_ts(l, rollback_ts) == [l EXCEPT !.rollback_ts = rollback_ts]

\* Lock::set_last_change
set_last_change(l, last_change) == [l EXCEPT !.last_change = last_change]

\* Lock::set_txn_source
set_txn_source(l, source) == [l EXCEPT !.txn_source = source]

\* Lock::with_generation
with_generation(l, generation) == [l EXCEPT !.generation = generation]

----------------------------------------------------------------------------
(* Lock::to_bytes *)

\* for k in &self.secondaries { b.encode_compact_bytes(k) }
RECURSIVE EncodeKeys(_)
EncodeKeys(s) ==
    IF s = <<>> THEN <<>> ELSE encode_compact_bytes(Head(s)) \o EncodeKeys(Tail(s))

\* for ts in &self.rollback_ts { b.encode_u64(ts) }
RECURSIVE EncodeTimestamps(_)
EncodeTimestamps(s) ==
    IF s = <<>> THEN <<>> ELSE encode_u64(Head(s)) \o EncodeTimestamps(Tail(s))

\* v.len() as u8
LenAsU8(v) == Len(v) % 256

ShortValueBytes(l) ==
    IF l.short_value # None
    THEN <<SHORT_VALUE_PREFIX, LenAsU8(l.short_value[1])>> \o l.short_value[1]
    ELSE <<>>

ForUpdateTsBytes(l) ==
    IF l.for_update_ts # U64_ZERO
    THEN <<FOR_UPDATE_TS_PREFIX>> \o encode_u64(l.for_update_ts)
    ELSE <<>>

TxnSizeBytes(l) ==
    IF U64Gt(l.txn_size, U64_ZERO)
    THEN <<TXN_SIZE_PREFIX>> \o encode_u64(l.txn_size)
    ELSE <<>>

\* min_commit_ts written as a varint, which parse reads as a fixed u64
MinCommitTsBytes_varint(l) ==
    IF l.min_commit_ts # U64_ZERO
    THEN <<MIN_COMMIT_TS_PREFIX>> \o encode_var_u64(l.min_commit_ts)
    ELSE <<>>

MinCommitTsBytes(l) ==
    IF l.min_commit_ts # U64_ZERO
    THEN <<MIN_COMMIT_TS_PREFIX>> \o encode_u64(l.min_commit_ts)
    ELSE <<>>

AsyncCommitBytes(l) ==
    IF l.use_async_commit
    THEN <<ASYNC_COMMIT_PREFIX>> \o encode_var_u64(U64(Len(l.secondaries)))
            \o EncodeKeys(l.secondaries)
    ELSE <<>>

RollbackTsBytes(l) ==
    IF l.rollback_ts # <<>>
    THEN <<ROLLBACK_TS_PREFIX>> \o encode_var_u64(U64(Len(l.rollback_ts)))
            \o EncodeTimestamps(l.rollback_ts)
    ELSE <<>>

LastChangeBytes(l) ==
    IF l.last_change.kind \in {"NotExist", "Exist"}
    THEN <<LAST_CHANGE_PREFIX>> \o encode_u64(to_parts(l.last_change)[1])
            \o encode_var_u64(to_parts(l.last_change)[2])
    ELSE <<>>

\* txn_source written whatever its value
TxnSourceBytes_always(l) ==
    <<TXN_SOURCE_PREFIX>> \o encode_var_u64(l.txn_source)

TxnSourceBytes(l) ==
    IF l.txn_source # U64_ZERO
    THEN <<TXN_SOURCE_PREFIX>> \o encode_var_u64(l.txn_source)
    ELSE <<>>

ConflictBytes(l) ==
    IF l.is_locked_with_conflict
    THEN <<PESSIMISTIC_LOCK_WITH_CONFLICT_PREFIX>>
    ELSE <<>>

GenerationBytes(l) ==
    IF U64Gt(l.generation, U64_ZERO)
    THEN <<GENERATION_PREFIX>> \o encode_u64(l.generation)
    ELSE <<>>

\* to_bytes with txn_source written before last_change
to_bytes_source_first(l) ==
    <<to_u8(l.lock_type)>>
        \o encode_compact_bytes(l.primary)
        \o encode_var_u64(l.ts)
        \o encode_var_u64(l.ttl)
        \o ShortValueBytes(l)
        \o ForUpdateTsBytes(l)
        \o TxnSizeBytes(l)
        \o MinCommitTsBytes(l)
        \o AsyncCommitBytes(l)
        \o RollbackTsBytes(l)
        \o TxnSourceBytes(l)
        \o LastChangeBytes(l)
        \o ConflictBytes(l)
        \o GenerationBytes(l)

to_bytes(l) ==
    <<to_u8(l.lock_type)>>
        \o encode_compact_bytes(l.primary)
        \o encode_var_u64(l.ts)
        \o encode_var_u64(l.ttl)
        \o ShortValueBytes(l)
        \o ForUpdateTsBytes(l)
        \o TxnSizeBytes(l)
        \o MinCommitTsBytes(l)
        \o AsyncCommitBytes(l)
        \o RollbackTsBytes(l)
        \o LastChangeBytes(l)
        \o TxnSourceBytes(l)
        \o ConflictBytes(l)
        \o GenerationBytes(l)

----------------------------------------------------------------------------
(* Lock::parse *)

\* Result<Lock>, and the outcome that is no result at all
Ok(l) == [tag |-> "Ok", lock |-> l, err |-> "none"]

Err(e) == [tag |-> "Err", lock |-> <<>>, err |-> e]

Panic == [tag |-> "Panic", lock |-> <<>>, err |-> "none"]

\* Vec::with_capacity(len + 1) of 8-byte timestamps panics with "capacity
\* overflow" when the byte size exceeds isize::MAX: len + 1 >= 2^60
CapacityOverflow(len) == len[1] >= 4096 \/ (len[1] = 4095 /\ len[2] = 65535 /\ len[3] = 65535 /\ len[4] = 65535)

\* (0..len).map(|_| decode_compact_bytes(&mut b)).collect::<Result<_>>():
\* [ok, val, rest]
RECURSIVE DecodeKeys(_, _)
DecodeKeys(b, n) ==
    IF n = 0 THEN [ok |-> TRUE, val |-> <<>>, rest |-> b]
    ELSE LET k == decode_compact_bytes(b)
         IN  IF ~k.ok THEN [ok |-> FALSE, val |-> <<>>, rest |-> b]
             ELSE LET r == DecodeKeys(k.rest, n - 1)
                  IN  [ok |-> r.ok, val |-> <<k.val>> \o r.val, rest |-> r.rest]

\* for _ in 0..len { rollback_ts.push(decode_u64(&mut b)?) }: [ok, val, rest]
RECURSIVE DecodeTimestamps(_, _)
DecodeTimestamps(b, n) ==
    IF n = 0 THEN [ok |-> TRUE, val |-> <<>>, rest |-> b]
    ELSE LET t == decode_u64(b)
         IN  IF ~t.ok THEN [ok |-> FALSE, val |-> <<>>, rest |-> b]
             ELSE LET r == DecodeTimestamps(t.rest, n - 1)
                  IN  [ok |-> r.ok, val |-> <<t.val>> \o r.val, rest |-> r.rest]

\* the locals of parse before its loop
ParseLocals ==
    [ short_value |-> None,
      for_update_ts |-> U64_ZERO,
      txn_size |-> U64_ZERO,
      min_commit_ts |-> U64_ZERO,
      use_async_commit |-> FALSE,
      secondaries |-> <<>>,
      rollback_ts |-> <<>>,
      last_change_ts |-> U64_ZERO,
      estimated_versions_to_last_change |-> U64_ZERO,
      txn_source |-> U64_ZERO,
      is_locked_with_conflict |-> FALSE,
      generation |-> U64_ZERO ]

\* the loop `while !b.is_empty() { match b.read_u8()? { ... } }`:
\* [tag, acc, rest] with tag "Ok" (the loop ended or met an unknown byte,
\* rest being the bytes it left unread), "Err" or "Panic"
RECURSIVE ParseFields(_, _)
ParseFields(b, acc) ==
    IF b = <<>> THEN [tag |-> "Ok", acc |-> acc, rest |-> <<>>]
    ELSE
    LET t == Head(b)
        r == Tail(b)
        u == decode_u64(r)
        v == decode_var_u64(r)
        Fail == [tag |-> "Err", acc |-> acc, rest |-> b]
        Abort == [tag |-> "Panic", acc |-> acc, rest |-> b]
    IN
    CASE t = SHORT_VALUE_PREFIX ->
            IF r = <<>> THEN Fail
            ELSE IF Len(r) - 1 < r[1] THEN Abort
            ELSE ParseFields(Drop(r, 1 + r[1]),
                             [acc EXCEPT !.short_value = Some(SubSeq(r, 2, 1 + r[1]))])
      [] t = FOR_UPDATE_TS_PREFIX ->
            IF ~u.ok THEN Fail
            ELSE ParseFields(u.rest, [acc EXCEPT !.for_update_ts = u.val])
      [] t = TXN_SIZE_PREFIX ->
            IF ~u.ok THEN Fail
            ELSE ParseFields(u.rest, [acc EXCEPT !.txn_size = u.val])
      [] t = MIN_COMMIT_TS_PREFIX ->
            IF ~u.ok THEN Fail
            ELSE ParseFields(u.rest, [acc EXCEPT !.min_commit_ts = u.val])
      [] t = ASYNC_COMMIT_PREFIX ->
            IF ~v.ok THEN Fail
            \* each key takes a byte at least: more keys than bytes fail
            ELSE IF as_usize(v.val) > Len(v.rest) THEN Fail
            ELSE LET k == DecodeKeys(v.rest, as_usize(v.val))
                 IN  IF ~k.ok THEN Fail
                     ELSE ParseFields(k.rest, [acc EXCEPT !.use_async_commit = TRUE,
                                                          !.secondaries = k.val])
      [] t = ROLLBACK_TS_PREFIX ->
            IF ~v.ok THEN Fail
            ELSE IF CapacityOverflow(v.val) THEN Abort
            ELSE IF as_usize(v.val) > Len(v.rest) \div 8 THEN Fail
            ELSE LET k == DecodeTimestamps(v.rest, as_usize(v.val))
                 IN  IF ~k.ok THEN Fail
                     ELSE ParseFields(k.rest, [acc EXCEPT !.rollback_ts = k.val])
      [] t = LAST_CHANGE_PREFIX ->
            IF ~u.ok THEN Fail
            ELSE LET e == decode_var_u64(u.rest)
                 IN  IF ~e.ok THEN Fail
                     ELSE ParseFields(e.rest,
                            [acc EXCEPT !.last_change_ts = u.val,
                                        !.estimated_versions_to_last_change = e.val])
      [] t = TXN_SOURCE_PREFIX ->
            IF ~v.ok THEN Fail
            ELSE ParseFields(v.rest, [acc EXCEPT !.txn_source = v.val])
      [] t = PESSIMISTIC_LOCK_WITH_CONFLICT_PREFIX ->
            ParseFields(r, [acc EXCEPT !.is_locked_with_conflict = TRUE])
      [] t = GENERATION_PREFIX ->
            IF ~u.ok THEN Fail
            ELSE ParseFields(u.rest, [acc EXCEPT !.generation = u.val])
      [] OTHER -> [tag |-> "Ok", acc |-> acc, rest |-> b]

\* the Lock that parse builds after its loop
ParseBuild(lock_type, primary, ts, ttl, a) ==
    LET l0 == LockNew(lock_type, primary, ts, ttl, a.short_value, a.for_update_ts,
                      a.txn_size, a.min_commit_ts, a.is_locked_with_conflict)
        l1 == set_last_change(l0, from_parts(a.last_change_ts,
                                             a.estimated_versions_to_last_change))
        l2 == set_txn_source(l1, a.txn_source)
        l3 == with_rollback_ts(l2, a.rollback_ts)
        l4 == with_generation(l3, a.generation)
    IN  IF a.use_async_commit THEN use_async_commit(l4, a.secondaries) ELSE l4

\* parse that rejects a record with bytes left after its known fields
parse_strict(b) ==
    IF b = <<>> THEN Err("BadFormatLock")
    ELSE IF from_u8(Head(b)) = <<>> THEN Err("BadFormatLock")
    ELSE
    LET lock_type == from_u8(Head(b))[1]
        p == decode_compact_bytes(Tail(b))
        t == decode_var_u64(p.rest)
        l == decode_var_u64(t.rest)
        ttl == IF t.rest = <<>> THEN U64_ZERO ELSE l.val
        rest == IF t.rest = <<>> THEN <<>> ELSE l.rest
    IN
    IF ~p.ok THEN Err("Codec")
    ELSE IF ~t.ok THEN Err("Codec")
    ELSE IF t.rest # <<>> /\ ~l.ok THEN Err("Codec")
    ELSE IF rest = <<>>
         THEN Ok(LockNew(lock_type, p.val, t.val, ttl, None, U64_ZERO, U64_ZERO,
                         U64_ZERO, FALSE))
    ELSE LET f == ParseFields(rest, ParseLocals)
         IN  CASE f.tag = "Err" -> Err("Codec")
               [] f.tag = "Panic" -> Panic
               [] f.rest # <<>> -> Err("BadFormatLock")
               [] OTHER -> Ok(ParseBuild(lock_type, p.val, t.val, ttl, f.acc))

parse(b) ==
    IF b = <<>> THEN Err("BadFormatLock")
    ELSE IF from_u8(Head(b)) = <<>> THEN Err("BadFormatLock")
    ELSE
    LET lock_type == from_u8(Head(b))[1]
        p == decode_compact_bytes(Tail(b))
        t == decode_var_u64(p.rest)
        l == decode_var_u64(t.rest)
        ttl == IF t.rest = <<>> THEN U64_ZERO ELSE l.val
        rest == IF t.rest = <<>> THEN <<>> ELSE l.rest
    IN
    IF ~p.ok THEN Err("Codec")
    ELSE IF ~t.ok THEN Err("Codec")
    ELSE IF t.rest # <<>> /\ ~l.ok THEN Err("Codec")
    ELSE IF rest = <<>>
         THEN Ok(LockNew(lock_type, p.val, t.val, ttl, None, U64_ZERO, U64_ZERO,
                         U64_ZERO, FALSE))
    ELSE LET f == ParseFields(rest, ParseLocals)
         IN  CASE f.tag = "Err" -> Err("Codec")
               [] f.tag = "Panic" -> Panic
               [] OTHER -> Ok(ParseBuild(lock_type, p.val, t.val, ttl, f.acc))

----------------------------------------------------------------------------
(* the inputs of the lock codec *)

\* the largest number of keys in `secondaries`
MaxSecondaries == 2

\* the largest number of timestamps in `rollback_ts`
MaxRollback == 2

\* the largest number of the fields use_async_commit, rollback_ts,
\* last_change, txn_source, generation and use_one_pc that a caller sets
\* after Lock::new
MaxBuilt == 2

\* the longest tail appended to an encoded lock
MaxTailLen == 2

U8_MAX == 255

\* b"pk", b"k1" and b"k"
KeyPk == <<112, 107>>

KeyK1 == <<107, 49>>

KeyK == <<107>>

PrimaryInputs == {<<>>, KeyPk}

TsInputs == {U64(111), U64_MAX}

TtlInputs == {U64(222)}

\* absent, a two-byte value, and a value one byte longer than a length byte
\* can say
ShortValueInputs == {None, Some(<<115, 118>>), Some([i \in 1..(U8_MAX + 1) |-> 0])}

SecondariesInputs == {s \in {<<>>, <<KeyK>>, <<KeyK1, KeyK>>, <<KeyK1, KeyK, KeyPk>>} : Len(s) <= MaxSecondaries}

RollbackInputs == {s \in {<<U64(12)>>, <<U64(12), U64(24)>>, <<U64(12), U64(24), U64(13)>>} : Len(s) <= MaxRollback}

LastChangeInputs == {LastChangeNotExist, LastChangeExist(U64(4), U64(2)), LastChangeExist(U64_ZERO, U64_ZERO)}

NewLocks ==
    { LockNew(t, p, ts, ttl, sv, f, n, c, w) :
        t \in LockType, p \in PrimaryInputs, ts \in TsInputs, ttl \in TtlInputs,
        sv \in ShortValueInputs, f \in {U64_ZERO, U64(333)},
        n \in {U64_ZERO, U64(444)}, c \in {U64_ZERO, U64(555)}, w \in BOOLEAN }

\* how many of the fields set after Lock::new are not at their default
Built(l) ==
    (IF l.use_async_commit THEN 1 ELSE 0)
    + (IF l.rollback_ts # <<>> THEN 1 ELSE 0)
    + (IF l.last_change # LastChangeUnknown THEN 1 ELSE 0)
    + (IF l.txn_source # U64_ZERO THEN 1 ELSE 0)
    + (IF l.generation # U64_ZERO THEN 1 ELSE 0)
    + (IF l.use_one_pc THEN 1 ELSE 0)

\* tails that begin with a byte that is no known tag; later bytes may be
TailBytes == {117, PESSIMISTIC_LOCK_WITH_CONFLICT_PREFIX}

KnownTags ==
    { SHORT_VALUE_PREFIX, FOR_UPDATE_TS_PREFIX, TXN_SIZE_PREFIX, MIN_COMMIT_TS_PREFIX,
      ASYNC_COMMIT_PREFIX, ROLLBACK_TS_PREFIX, LAST_CHANGE_PREFIX, TXN_SOURCE_PREFIX,
      PESSIMISTIC_LOCK_WITH_CONFLICT_PREFIX, GENERATION_PREFIX }

RECURSIVE SeqsUpTo(_, _)
\* the sequences over S of length 1..n
SeqsUpTo(S, n) ==
    IF n = 0 THEN {}
    ELSE {<<x>> : x \in S}
         \cup {<<x>> \o t : x \in S, t \in SeqsUpTo(S, n - 1)}

TailInputs == {t \in SeqsUpTo(TailBytes, MaxTailLen) : t[1] \notin KnownTags}

NoResult == [tag |-> "none", lock |-> <<>>, err |-> "none"]

NoCheck == [tag |-> "none"]

----------------------------------------------------------------------------
(* the callers of the lock codec *)

InitCodec ==
    /\ lock \in NewLocks
    /\ buf = <<>>
    /\ parsed = NoResult
    /\ checked = NoCheck
    /\ pc = "build"
    /\ TimeIdle

\* lock.use_async_commit(secondaries)
UseAsyncCommit ==
    /\ pc = "build"
    /\ Built(lock) < MaxBuilt
    /\ \E s \in SecondariesInputs : lock' = use_async_commit(lock, s)
    /\ UNCHANGED <<buf, parsed, checked, pc, ctx, time, aux, out>>

\* lock.with_rollback_ts(rollback_ts)
WithRollbackTs ==
    /\ pc = "build"
    /\ Built(lock) < MaxBuilt
    /\ \E r \in RollbackInputs : lock' = with_rollback_ts(lock, r)
    /\ UNCHANGED <<buf, parsed, checked, pc, ctx, time, aux, out>>

\* lock.set_last_change(last_change)
SetLastChange ==
    /\ pc = "build"
    /\ Built(lock) < MaxBuilt
    /\ \E c \in LastChangeInputs : lock' = set_last_change(lock, c)
    /\ UNCHANGED <<buf, parsed, checked, pc, ctx, time, aux, out>>

\* lock.set_txn_source(source)
SetTxnSource ==
    /\ pc = "build"
    /\ Built(lock) < MaxBuilt
    /\ lock' = set_txn_source(lock, U64(1))
    /\ UNCHANGED <<buf, parsed, checked, pc, ctx, time, aux, out>>

\* lock.with_generation(generation)
WithGeneration ==
    /\ pc = "build"
    /\ Built(lock) < MaxBuilt
    /\ lock' = with_generation(lock, U64(10))
    /\ UNCHANGED <<buf, parsed, checked, pc, ctx, time, aux, out>>

\* lock.use_one_pc = true (the field is public)
SetUseOnePc ==
    /\ pc = "build"
    /\ Built(lock) < MaxBuilt
    /\ lock' = [lock EXCEPT !.use_one_pc = TRUE]
    /\ UNCHANGED <<buf, parsed, checked, pc, ctx, time, aux, out>>

\* let v = lock.to_bytes()
ToBytes ==
    /\ pc = "build"
    /\ buf' = to_bytes(lock)
    /\ pc' = "encoded"
    /\ UNCHANGED <<lock, parsed, checked, ctx, time, aux, out>>

\* v.extend(tail)
Extend ==
    /\ pc = "encoded"
    /\ \E t \in TailInputs : buf' = buf \o t
    /\ pc' = "extended"
    /\ UNCHANGED <<lock, parsed, checked, ctx, time, aux, out>>

\* Lock::parse(&v)
Parse ==
    /\ pc \in {"encoded", "extended", "truncated", "corrupted"}
    /\ parsed' = parse(buf)
    /\ pc' = "parsed_" \o pc
    /\ UNCHANGED <<lock, buf, checked, ctx, time, aux, out>>

NextCodec ==
    \/ UseAsyncCommit
    \/ WithRollbackTs
    \/ SetLastChange
    \/ SetTxnSource
    \/ WithGeneration
    \/ SetUseOnePc
    \/ ToBytes
    \/ Extend
    \/ Parse

SpecCodec == InitCodec /\ [][NextCodec]_vars

----------------------------------------------------------------------------
(* malformed records *)

MalformedLocks ==
    { LockNew("Put", KeyPk, U64(111), U64(222), sv, f, U64_ZERO, U64_ZERO, FALSE) :
        sv \in {None, Some(<<115, 118>>)}, f \in {U64_ZERO, U64(333)} }

\* bytes written over a byte of a record
CorruptBytes == {0, U8_MAX}

InitMalformed ==
    /\ lock \in MalformedLocks
    /\ buf = <<>>
    /\ parsed = NoResult
    /\ checked = NoCheck
    /\ pc = "build"
    /\ TimeIdle

\* &v[..n]: a record cut short
Truncate ==
    /\ pc = "encoded"
    /\ \E n \in 0..(Len(buf) - 1) : buf' = Take(buf, n)
    /\ pc' = "truncated"
    /\ UNCHANGED <<lock, parsed, checked, ctx, time, aux, out>>

\* v[i] = b: a record with one byte overwritten
Corrupt ==
    /\ pc = "encoded"
    /\ \E i \in 1..Len(buf), b \in CorruptBytes :
          /\ buf[i] # b
          /\ buf' = [buf EXCEPT ![i] = b]
    /\ pc' = "corrupted"
    /\ UNCHANGED <<lock, parsed, checked, ctx, time, aux, out>>

NextMalformed ==
    \/ UseAsyncCommit
    \/ WithRollbackTs
    \/ SetLastChange
    \/ SetTxnSource
    \/ WithGeneration
    \/ ToBytes
    \/ Truncate
    \/ Corrupt
    \/ Parse

SpecMalformed == InitMalformed /\ [][NextMalformed]_vars

----------------------------------------------------------------------------
(* the conflict check *)

\* Key::to_raw of a key built by Key::from_raw
to_raw(key) == key.raw

from_raw(raw) == [raw |-> raw]

\* Lock::is_pessimistic_lock
is_pessimistic_lock(l) == l.lock_type = "Pessimistic"

\* the Op of a LockType in Lock::into_lock_info
LockTypeOp(t) ==
    CASE t = "Put" -> "Put"
      [] t = "Delete" -> "Del"
      [] t = "Lock" -> "Lock"
      [] t = "Pessimistic" -> "PessimisticLock"

\* into_lock_info that reports the primary as the key
into_lock_info_primary_key(l, raw_key) ==
    [ primary_lock |-> l.primary,
      lock_version |-> l.ts,
      key |-> l.primary,
      lock_ttl |-> l.ttl,
      txn_size |-> l.txn_size,
      lock_type |-> LockTypeOp(l.lock_type),
      lock_for_update_ts |-> l.for_update_ts,
      use_async_commit |-> l.use_async_commit,
      min_commit_ts |-> l.min_commit_ts,
      secondaries |-> l.secondaries ]

\* Lock::into_lock_info
into_lock_info(l, raw_key) ==
    [ primary_lock |-> l.primary,
      lock_version |-> l.ts,
      key |-> raw_key,
      lock_ttl |-> l.ttl,
      txn_size |-> l.txn_size,
      lock_type |-> LockTypeOp(l.lock_type),
      lock_for_update_ts |-> l.for_update_ts,
      use_async_commit |-> l.use_async_commit,
      min_commit_ts |-> l.min_commit_ts,
      secondaries |-> l.secondaries ]

CheckOk == [tag |-> "Ok"]

KeyIsLocked(info) == [tag |-> "KeyIsLocked", info |-> info]

WriteConflict(start_ts, conflict_start_ts, conflict_commit_ts, key, primary, reason) ==
    [ tag |-> "WriteConflict",
      start_ts |-> start_ts,
      conflict_start_ts |-> conflict_start_ts,
      conflict_commit_ts |-> conflict_commit_ts,
      key |-> key,
      primary |-> primary,
      reason |-> reason ]

\* unreachable!()
CheckPanic == [tag |-> "Panic"]

\* the check with `lock.min_commit_ts >= ts` for `lock.min_commit_ts > ts`
check_ts_conflict_si_ge(l, key, ts, bypass_locks, is_replica_read) ==
    IF U64Gt(l.ts, ts) \/ l.lock_type = "Lock" \/ is_pessimistic_lock(l) THEN CheckOk
    ELSE IF U64Gt(l.min_commit_ts, ts) \/ l.min_commit_ts = ts THEN CheckOk
    ELSE IF l.ts \in bypass_locks THEN CheckOk
    ELSE IF ts = U64_MAX /\ is_replica_read
         THEN KeyIsLocked(into_lock_info(l, to_raw(key)))
    ELSE IF /\ ts = U64_MAX
            /\ to_raw(key) = l.primary
            /\ ~l.use_async_commit
            /\ ~l.use_one_pc
         THEN CheckOk
    ELSE KeyIsLocked(into_lock_info(l, to_raw(key)))

\* the SI check without the look at bypass_locks
check_ts_conflict_si_no_bypass(l, key, ts, bypass_locks, is_replica_read) ==
    IF U64Gt(l.ts, ts) \/ l.lock_type = "Lock" \/ is_pessimistic_lock(l) THEN CheckOk
    ELSE IF U64Gt(l.min_commit_ts, ts) THEN CheckOk
    ELSE IF ts = U64_MAX /\ is_replica_read
         THEN KeyIsLocked(into_lock_info(l, to_raw(key)))
    ELSE IF /\ ts = U64_MAX
            /\ to_raw(key) = l.primary
            /\ ~l.use_async_commit
            /\ ~l.use_one_pc
         THEN CheckOk
    ELSE KeyIsLocked(into_lock_info(l, to_raw(key)))

\* Lock::check_ts_conflict_si
check_ts_conflict_si(l, key, ts, bypass_locks, is_replica_read) ==
    IF U64Gt(l.ts, ts) \/ l.lock_type = "Lock" \/ is_pessimistic_lock(l) THEN CheckOk
    ELSE IF U64Gt(l.min_commit_ts, ts) THEN CheckOk
    ELSE IF l.ts \in bypass_locks THEN CheckOk
    ELSE IF ts = U64_MAX /\ is_replica_read
         THEN KeyIsLocked(into_lock_info(l, to_raw(key)))
    ELSE IF /\ ts = U64_MAX
            /\ to_raw(key) = l.primary
            /\ ~l.use_async_commit
            /\ ~l.use_one_pc
         THEN CheckOk
    ELSE KeyIsLocked(into_lock_info(l, to_raw(key)))

\* the check that, like the SI check, ignores a lock newer than the read
check_ts_conflict_rc_check_ts_newer(l, key, ts, bypass_locks) ==
    IF U64Gt(l.ts, ts) \/ l.lock_type = "Lock" \/ is_pessimistic_lock(l) THEN CheckOk
    ELSE IF l.ts \in bypass_locks THEN CheckOk
    ELSE WriteConflict(ts, l.ts, U64_ZERO, to_raw(key), l.primary, "RcCheckTs")

\* Lock::check_ts_conflict_rc_check_ts
check_ts_conflict_rc_check_ts(l, key, ts, bypass_locks) ==
    IF l.lock_type = "Lock" \/ is_pessimistic_lock(l) THEN CheckOk
    ELSE IF l.ts \in bypass_locks THEN CheckOk
    ELSE WriteConflict(ts, l.ts, U64_ZERO, to_raw(key), l.primary, "RcCheckTs")

IsolationLevel == {"Si", "Rc", "RcCheckTs"}

\* Lock::check_ts_conflict
check_ts_conflict(l, key, ts, bypass_locks, iso_level) ==
    CASE iso_level = "Si" -> check_ts_conflict_si(l, key, ts, bypass_locks, FALSE)
      [] iso_level = "RcCheckTs" -> check_ts_conflict_rc_check_ts(l, key, ts, bypass_locks)
      [] OTHER -> CheckOk

\* the replica check that calls the SI check with is_replica_read = false
check_ts_conflict_for_replica_read_as_leader(l, key, ts, bypass_locks, iso_level) ==
    CASE iso_level = "Si" -> check_ts_conflict_si(l, key, ts, bypass_locks, FALSE)
      [] iso_level = "RcCheckTs" -> CheckPanic
      [] OTHER -> CheckOk

\* Lock::check_ts_conflict_for_replica_read
check_ts_conflict_for_replica_read(l, key, ts, bypass_locks, iso_level) ==
    CASE iso_level = "Si" -> check_ts_conflict_si(l, key, ts, bypass_locks, TRUE)
      [] iso_level = "RcCheckTs" -> CheckPanic
      [] OTHER -> CheckOk

\* b"foo" and b"bar"
KeyFoo == <<102, 111, 111>>

KeyBar == <<98, 97, 114>>

CheckLocks ==
    { LockNew(t, p, ts, U64(3), None, U64_ZERO, U64(1), c, FALSE) :
        t \in LockType, p \in {<<>>, KeyFoo, KeyBar}, ts \in {U64(100)},
        c \in {U64_ZERO, U64(150)} }

ReadTsInputs == {U64(50), U64(100), U64(110), U64(150), U64(160), U64_MAX}

BypassInputs ==
    { {}, {U64(100)}, {U64(109), U64(110)},
      {U64(99), U64(101), U64(102), U64(100), U64(80)} }

InitCheck ==
    /\ lock \in CheckLocks
    /\ buf = <<>>
    /\ parsed = NoResult
    /\ checked = NoCheck
    /\ pc = "build"
    /\ TimeIdle

\* Lock::check_ts_conflict(Cow::Borrowed(&lock), &key, ts, &bypass_locks, iso)
CheckTsConflict ==
    /\ pc = "build"
    /\ \E raw \in {KeyFoo, KeyBar}, ts \in ReadTsInputs, bypass \in BypassInputs,
          iso \in IsolationLevel :
          checked' = [ tag |-> "check", replica |-> FALSE, key |-> from_raw(raw),
                       ts |-> ts, bypass_locks |-> bypass, iso_level |-> iso,
                       res |-> check_ts_conflict(lock, from_raw(raw), ts, bypass, iso) ]
    /\ pc' = "checked"
    /\ UNCHANGED <<lock, buf, parsed, ctx, time, aux, out>>

\* Lock::check_ts_conflict_for_replica_read(...)
CheckTsConflictForReplicaRead ==
    /\ pc = "build"
    /\ \E raw \in {KeyFoo, KeyBar}, ts \in ReadTsInputs, bypass \in BypassInputs,
          iso \in IsolationLevel :
          checked' = [ tag |-> "check", replica |-> TRUE, key |-> from_raw(raw),
                       ts |-> ts, bypass_locks |-> bypass, iso_level |-> iso,
                       res |-> check_ts_conflict_for_replica_read(
                                   lock, from_raw(raw), ts, bypass, iso) ]
    /\ pc' = "checked"
    /\ UNCHANGED <<lock, buf, parsed, ctx, time, aux, out>>

NextCheck ==
    \/ UseAsyncCommit
    \/ SetUseOnePc
    \/ CheckTsConflict
    \/ CheckTsConflictForReplicaRead

SpecCheck == InitCheck /\ [][NextCheck]_vars

----------------------------------------------------------------------------
(* the lock codec: round trip, malformed records, unknown tails *)

\* a Lock that the record format can hold: use_one_pc is not persisted, the
\* length of short_value is one byte, secondaries are written only for an
\* async-commit lock, and last_change is read back from its two parts
Persistable(l) ==
    /\ ~l.use_one_pc
    /\ l.short_value # None => Len(l.short_value[1]) <= U8_MAX
    /\ ~l.use_async_commit => l.secondaries = <<>>
    /\ l.last_change.kind = "Exist" => l.last_change.ts # U64_ZERO

\* C1 as stated: for every Lock L, Lock::parse(L.to_bytes()) succeeds and
\* returns a Lock equal to L in every field.
C1_RoundTripEveryLock ==
    pc = "parsed_encoded" => parsed = Ok(lock)

\* C1 as amended: for every Lock L with use_one_pc = false, a short_value
\* that is absent or at most 255 bytes long, no secondaries unless
\* use_async_commit, and a last_change that is Unknown, NotExist or Exist
\* with a non-zero timestamp, Lock::parse(L.to_bytes()) succeeds and returns
\* a Lock equal to L in every field.
C1_RoundTripPersistable ==
    (pc = "parsed_encoded" /\ Persistable(lock)) => parsed = Ok(lock)

\* C1 witness: an async-commit lock with secondaries, a short value, a
\* rollback list and a 64-bit timestamp has been encoded and parsed back.
C1_Witness ==
    /\ pc = "parsed_encoded"
    /\ Persistable(lock)
    /\ lock.use_async_commit /\ Len(lock.secondaries) = 2
    /\ lock.short_value # None
    /\ lock.rollback_ts # <<>>
    /\ lock.ts = U64_MAX
    /\ lock.min_commit_ts # U64_ZERO
    /\ parsed.tag = "Ok"

\* C5 as stated: Lock::parse returns Ok or Err for every input: BadFormat
\* for empty input and for an unknown lock-type byte, and an error for a
\* record that ends inside a field, the short value included.
C5_ParseReturnsResult ==
    pc \in {"parsed_truncated", "parsed_corrupted"} =>
        /\ parsed.tag \in {"Ok", "Err"}
        /\ buf = <<>> => parsed = Err("BadFormatLock")
        /\ (buf # <<>> /\ from_u8(buf[1]) = <<>>) => parsed = Err("BadFormatLock")

\* C6 as stated: for every Lock L and every tail whose first byte is no known
\* tag, Lock::parse(L.to_bytes() ++ tail) succeeds and equals L.
C6_UnknownTailEveryLock ==
    pc = "parsed_extended" => parsed = Ok(lock)

\* C6 as amended: for every Lock L that the record format can hold
\* (use_one_pc = false, short_value absent or at most 255 bytes, no
\* secondaries unless use_async_commit, last_change Unknown, NotExist or
\* Exist with a non-zero timestamp) and every tail whose first byte is no
\* known tag, Lock::parse(L.to_bytes() ++ tail) succeeds and equals L.
C6_UnknownTailPersistable ==
    (pc = "parsed_extended" /\ Persistable(lock)) => parsed = Ok(lock)

\* C6 witness: a lock with tagged fields was encoded, followed by an unknown
\* byte and then by a known tag ('F'), and parsed back without the flag.
C6_Witness ==
    /\ pc = "parsed_extended"
    /\ Persistable(lock)
    /\ ~lock.is_locked_with_conflict
    /\ lock.generation # U64_ZERO
    /\ Len(buf) >= 2
    /\ buf[Len(buf)] = PESSIMISTIC_LOCK_WITH_CONFLICT_PREFIX
    /\ buf[Len(buf) - 1] \notin KnownTags
    /\ parsed.tag = "Ok"
    /\ ~parsed.lock.is_locked_with_conflict

----------------------------------------------------------------------------
(* the conflict check: SI, RcCheckTs, replica read *)

\* the locks that the SI check of a leader read ignores, as C2 lists them
SiIgnores(l, raw_key, read_ts, bypass_locks) ==
    \/ U64Gt(l.ts, read_ts)
    \/ l.lock_type \in {"Lock", "Pessimistic"}
    \/ U64Gt(l.min_commit_ts, read_ts)
    \/ l.ts \in bypass_locks
    \/ /\ read_ts = U64_MAX
       /\ raw_key = l.primary
       /\ ~l.use_async_commit
       /\ ~l.use_one_pc

\* C2: under SI with a non-replica read the check returns Ok exactly for the
\* locks of SiIgnores and KeyIsLocked for every other lock; read_ts equal to
\* min_commit_ts is KeyIsLocked, and at read_ts = u64::MAX an async-commit
\* primary lock and a secondary lock are KeyIsLocked.
C2_SiIgnoresExactly ==
    (pc = "checked" /\ ~checked.replica /\ checked.iso_level = "Si") =>
        LET raw == to_raw(checked.key)
            ignored == SiIgnores(lock, raw, checked.ts, checked.bypass_locks)
            blocking == /\ lock.lock_type \in {"Put", "Delete"}
                        /\ ~U64Gt(lock.ts, checked.ts)
                        /\ lock.ts \notin checked.bypass_locks
        IN  /\ checked.res.tag = "Ok" <=> ignored
            /\ ~ignored => checked.res.tag = "KeyIsLocked"
            /\ (blocking /\ checked.ts = lock.min_commit_ts /\ checked.ts # U64_MAX)
                  => checked.res.tag = "KeyIsLocked"
            /\ (blocking /\ checked.ts = U64_MAX /\ lock.use_async_commit)
                  => checked.res.tag = "KeyIsLocked"
            /\ (blocking /\ checked.ts = U64_MAX /\ raw # lock.primary)
                  => checked.res.tag = "KeyIsLocked"

\* C2 witness: a Put lock with min_commit_ts 150 was checked at read_ts 150
\* and the check answered KeyIsLocked.
C2_Witness ==
    /\ pc = "checked" /\ ~checked.replica /\ checked.iso_level = "Si"
    /\ lock.lock_type = "Put"
    /\ lock.min_commit_ts = U64(150)
    /\ checked.ts = U64(150)
    /\ checked.bypass_locks = {}
    /\ checked.res.tag = "KeyIsLocked"

\* C3: under RcCheckTs the check returns Ok exactly when the lock is of type
\* Lock or Pessimistic or bypass_locks contains lock.ts, and otherwise
\* WriteConflict{start_ts = read_ts, conflict_start_ts = lock.ts,
\* conflict_commit_ts = 0, key = raw key, primary = lock.primary,
\* reason = RcCheckTs}, whatever read_ts and min_commit_ts are.
C3_RcCheckTsConflict ==
    (pc = "checked" /\ ~checked.replica /\ checked.iso_level = "RcCheckTs") =>
        IF lock.lock_type \in {"Lock", "Pessimistic"} \/ lock.ts \in checked.bypass_locks
        THEN checked.res.tag = "Ok"
        ELSE /\ checked.res.tag = "WriteConflict"
             /\ checked.res.start_ts = checked.ts
             /\ checked.res.conflict_start_ts = lock.ts
             /\ checked.res.conflict_commit_ts = U64_ZERO
             /\ checked.res.key = checked.key.raw
             /\ checked.res.primary = lock.primary
             /\ checked.res.reason = "RcCheckTs"

\* C3 witness: a Put lock at ts 100 was checked at read_ts 50, below the lock,
\* and the check answered WriteConflict.
C3_Witness ==
    /\ pc = "checked" /\ ~checked.replica /\ checked.iso_level = "RcCheckTs"
    /\ lock.lock_type = "Put"
    /\ lock.ts = U64(100)
    /\ checked.ts = U64(50)
    /\ checked.bypass_locks = {}
    /\ checked.res.tag = "WriteConflict"

\* C4: a replica read under SI at read_ts = u64::MAX gets KeyIsLocked for
\* every Put or Delete lock whose ts is not in bypass_locks, also when the
\* key is the lock's primary and the lock is neither async-commit nor one-PC.
C4_ReplicaReadNeverBypasses ==
    ( /\ pc = "checked" /\ checked.replica /\ checked.iso_level = "Si"
      /\ checked.ts = U64_MAX
      /\ lock.lock_type \in {"Put", "Delete"}
      /\ lock.ts \notin checked.bypass_locks )
    => checked.res.tag = "KeyIsLocked"

\* C4 witness: a replica read at u64::MAX of the primary key of a lock that
\* is neither async-commit nor one-PC answered KeyIsLocked.
C4_Witness ==
    /\ pc = "checked" /\ checked.replica /\ checked.iso_level = "Si"
    /\ checked.ts = U64_MAX
    /\ lock.lock_type = "Put"
    /\ checked.key.raw = lock.primary
    /\ ~lock.use_async_commit /\ ~lock.use_one_pc
    /\ lock.ts \notin checked.bypass_locks
    /\ checked.res.tag = "KeyIsLocked"


----------------------------------------------------------------------------
(* the time codec: calendar and chrono helpers                             *)
(*                                                                         *)
(* A u32 field is an integer; a year that chrono returns below 0 stays     *)
(* negative here and stands for its cast `as u32`, a value above 2^31.     *)
(* A NaiveDateTime is [days, secs, micros]: days since 1970-01-01, seconds *)
(* of the day and microseconds of the second. A time zone is its offset    *)
(* from UTC in seconds (Tz::from_offset); zones with daylight saving are   *)
(* not modelled.                                                           *)

MIN_TIMESTAMP == 0

MAX_TIMESTAMP == 2147483647

MICRO_WIDTH == 6

MAX_FSP == 6

DEFAULT_FSP == 0

UNSPECIFIED_FSP == -1

SECS_PER_DAY == 86400

MICROS_PER_SEC == 1000000

\* chrono::naive::MAX_DATE / MIN_DATE: the years a NaiveDate can hold
MAX_CHRONO_YEAR == 262143

TEN_POW == <<1, 10, 100, 1000, 10000, 100000, 1000000, 10000000, 100000000, 1000000000>>

\* TEN_POW[i]
TenPow(i) == TEN_POW[i + 1]

\* check_fsp: -1 is the default precision, anything else outside 0..=6 an error
check_fsp(fsp) ==
    IF fsp = UNSPECIFIED_FSP THEN Some(DEFAULT_FSP)
    ELSE IF fsp < 0 \/ fsp > MAX_FSP THEN None
    ELSE Some(fsp)

is_leap_year(year) == year % 4 = 0 /\ (year % 100 # 0 \/ year % 400 = 0)

last_day_of_month(year, month) ==
    CASE month \in {4, 6, 9, 11} -> 30
      [] month = 2 -> (IF is_leap_year(year) THEN 1 ELSE 0) + 28
      [] OTHER -> 31

\* NaiveDate::from_ymd_opt(..).map(|d| d.num_days_from_ce() - 719163):
\* the days from 1970-01-01 to a valid date of the proleptic calendar
DaysFromCivil(y, m, d) ==
    LET yy == IF m <= 2 THEN y - 1 ELSE y
        era == yy \div 400
        yoe == yy - era * 400
        mp == IF m > 2 THEN m - 3 ELSE m + 9
        doy == (153 * mp + 2) \div 5 + d - 1
        doe == yoe * 365 + yoe \div 4 - yoe \div 100 + doy
    IN  era * 146097 + doe - 719468

\* Datelike::year/month/day of the date `z` days after 1970-01-01
CivilFromDays(z) ==
    LET zz == z + 719468
        era == zz \div 146097
        doe == zz - era * 146097
        yoe == (doe - doe \div 1460 + doe \div 36524 - doe \div 146096) \div 365
        doy == doe - (365 * yoe + yoe \div 4 - yoe \div 100)
        mp == (5 * doy + 2) \div 153
        d == doy - (153 * mp + 2) \div 5 + 1
        m == IF mp < 10 THEN mp + 3 ELSE mp - 9
        y == yoe + era * 400 + (IF m <= 2 THEN 1 ELSE 0)
    IN  <<y, m, d>>

\* carries of a NaiveDateTime: micros into secs, secs into days
NaiveNorm(days, secs, micros) ==
    LET s == secs + micros \div MICROS_PER_SEC
    IN  [ days |-> days + s \div SECS_PER_DAY,
          secs |-> s % SECS_PER_DAY,
          micros |-> micros % MICROS_PER_SEC ]

\* NaiveDate::from_ymd_opt(year as i32, month, day)
from_ymd_opt(year, month, day) ==
    IF /\ year >= -MAX_CHRONO_YEAR /\ year <= MAX_CHRONO_YEAR
       /\ month >= 1 /\ month <= 12
       /\ day >= 1 /\ day <= last_day_of_month(year, month)
    THEN Some(DaysFromCivil(year, month, day))
    ELSE None

\* chrono_naive_datetime: Option<NaiveDateTime>
chrono_naive_datetime(year, month, day, hour, minute, second, micro) ==
    LET date == from_ymd_opt(year, month, day)
    IN  IF date = None THEN None
        ELSE IF hour > 23 \/ minute > 59 \/ second > 59 THEN None
        ELSE Some(NaiveNorm(date[1], hour * 3600 + minute * 60 + second, micro))

\* naive + chrono::Duration of `secs` seconds and `micros` microseconds
checked_add_signed(naive, secs, micros) ==
    LET m == naive.micros + micros
        s == naive.secs + (secs % SECS_PER_DAY)
        d == naive.days + secs \div SECS_PER_DAY
    IN  NaiveNorm(d, s, m)

\* time_zone.from_local_datetime(&naive).earliest(): the instant, in UTC
from_local_datetime(tz, naive) == checked_add_signed(naive, -tz, 0)

\* time_zone.from_utc_datetime(&utc).naive_local()
naive_local(tz, utc) == checked_add_signed(utc, tz, 0)

\* chrono_datetime: Option<DateTime<T>>, kept as the instant in UTC
chrono_datetime(tz, year, month, day, hour, minute, second, micro) ==
    LET naive == chrono_naive_datetime(year, month, day, hour, minute, second, micro)
    IN  IF naive = None THEN None ELSE Some(from_local_datetime(tz, naive[1]))

\* the range check with MAX_TIMESTAMP excluded
timestamp_in_range_exclusive(utc) ==
    /\ utc.days >= MIN_TIMESTAMP \div SECS_PER_DAY
    /\ \/ utc.days < MAX_TIMESTAMP \div SECS_PER_DAY
       \/ /\ utc.days = MAX_TIMESTAMP \div SECS_PER_DAY
          /\ utc.secs < MAX_TIMESTAMP % SECS_PER_DAY

\* (MIN_TIMESTAMP..=MAX_TIMESTAMP).contains(&datetime.timestamp())
timestamp_in_range(utc) ==
    /\ utc.days >= MIN_TIMESTAMP \div SECS_PER_DAY
    /\ \/ utc.days < MAX_TIMESTAMP \div SECS_PER_DAY
       \/ /\ utc.days = MAX_TIMESTAMP \div SECS_PER_DAY
          /\ utc.secs <= MAX_TIMESTAMP % SECS_PER_DAY

----------------------------------------------------------------------------
(* the time codec: EvalContext, TimeArgs and their validation *)

\* enum TimeType
TimeType == {"Date", "DateTime", "Timestamp"}

\* EvalContext: cfg.sql_mode, cfg.flag and cfg.tz
EvalContext(sql_mode, flag, tz) == [sql_mode |-> sql_mode, flag |-> flag, tz |-> tz]

\* struct TimeArgs
TimeArgs(year, month, day, hour, minute, second, micro, fsp, time_type) ==
    [ year |-> year, month |-> month, day |-> day, hour |-> hour,
      minute |-> minute, second |-> second, micro |-> micro,
      fsp |-> fsp, time_type |-> time_type ]

\* TimeArgs::zero
TimeArgsZero(fsp, time_type) == TimeArgs(0, 0, 0, 0, 0, 0, 0, fsp, time_type)

\* TimeArgs::clear
clear(args) == TimeArgsZero(args.fsp, args.time_type)

\* TimeArgs::is_zero
args_is_zero(args) ==
    /\ args.year = 0 /\ args.month = 0 /\ args.day = 0
    /\ args.hour = 0 /\ args.minute = 0 /\ args.second = 0 /\ args.micro = 0

\* Result<Option<TimeArgs>> and the warnings appended to ctx.warnings on the way
VOk(val, warn) == [tag |-> "Ok", val |-> val, warn |-> warn]

VErr(warn) == [tag |-> "Err", val |-> None, warn |-> warn]

\* the result `r` of a later step, after `warn` warnings of the earlier steps
Warned(r, warn) == [r EXCEPT !.warn = @ + warn]

strict_mode(c) ==
    "STRICT_ALL_TABLES" \in c.sql_mode \/ "STRICT_TRANS_TABLES" \in c.sql_mode

ignore_truncate(c) == "IGNORE_TRUNCATE" \in c.flag

handle_zero_date(c, args) ==
    IF "NO_ZERO_DATE" \in c.sql_mode
    THEN IF ~(~strict_mode(c) \/ ignore_truncate(c)) THEN VErr(0)
         ELSE VOk(None, 1)
    ELSE VOk(Some(args), 0)

\* handle_zero_in_date without the `|| ignore_truncate` of its guard
handle_zero_in_date_strict(c, args) ==
    IF "NO_ZERO_IN_DATE" \in c.sql_mode
    THEN IF strict_mode(c) THEN VErr(0)
         ELSE Warned(handle_zero_date(c, clear(args)), 1)
    ELSE VOk(Some(args), 0)

handle_zero_in_date(c, args) ==
    IF "NO_ZERO_IN_DATE" \in c.sql_mode
    THEN IF ~(~strict_mode(c) \/ ignore_truncate(c)) THEN VErr(0)
         ELSE Warned(handle_zero_date(c, clear(args)), 1)
    ELSE VOk(Some(args), 0)

handle_invalid_date(c, args) ==
    IF "INVALID_DATES" \notin c.sql_mode THEN VErr(0)
    ELSE handle_zero_date(c, clear(args))

\* check_month_and_day that checks the month's last day in every mode
check_month_and_day_last_day(year, month, day, allow_invalid_date) ==
    IF month > 12 \/ day > 31 THEN FALSE
    ELSE day <= last_day_of_month(year, month)

\* Time::check_month_and_day(..).is_ok()
check_month_and_day(year, month, day, allow_invalid_date) ==
    IF month > 12 \/ day > 31 THEN FALSE
    ELSE IF allow_invalid_date THEN TRUE
    ELSE day <= last_day_of_month(year, month)

\* `year > 9999` of a u32: a negative year stands for a u32 above 2^31
year_gt_9999(year) == year > 9999 \/ year < 0

\* the end of TimeArgs::check_date, after the zero checks left `args`
check_date_range(c, self, args, warn) ==
    IF \/ year_gt_9999(self.year)
       \/ ~check_month_and_day(self.year, self.month, self.day, "INVALID_DATES" \in c.sql_mode)
    THEN Warned(handle_invalid_date(c, args), warn)
    ELSE VOk(Some(args), warn)

\* the middle of TimeArgs::check_date: the zero-in-date check
check_date_after_zero_in(c, self, r) ==
    IF r.tag = "Err" \/ r.val = None THEN r
    ELSE check_date_range(c, self, r.val[1], r.warn)

\* the middle of TimeArgs::check_date: the zero-in-date check
check_date_zero_in(c, self, args, warn) ==
    IF self.month = 0 \/ self.day = 0
    THEN check_date_after_zero_in(c, self, Warned(handle_zero_in_date(c, args), warn))
    ELSE check_date_range(c, self, args, warn)

\* TimeArgs::check_date
check_date_after_zero(c, self, r) ==
    IF r.tag = "Err" \/ r.val = None THEN r
    ELSE check_date_zero_in(c, self, r.val[1], r.warn)

\* TimeArgs::check_date
check_date(c, self) ==
    IF args_is_zero(self) THEN check_date_after_zero(c, self, handle_zero_date(c, self))
    ELSE check_date_zero_in(c, self, self, 0)

\* TimeArgs::check_datetime
check_datetime_hms(c, r) ==
    IF r.tag = "Err" \/ r.val = None THEN r
    ELSE IF \/ r.val[1].hour > 23 \/ r.val[1].minute > 59
            \/ r.val[1].second > 59 \/ r.val[1].micro > 999999
    THEN Warned(handle_invalid_date(c, r.val[1]), r.warn)
    ELSE r

\* TimeArgs::check_datetime
check_datetime(c, self) == check_datetime_hms(c, check_date(c, self))

\* TimeArgs::check_timestamp
check_timestamp_range(c, self, datetime) ==
    IF datetime = None \/ ~timestamp_in_range(datetime[1]) THEN handle_invalid_date(c, self)
    ELSE VOk(Some(self), 0)

\* TimeArgs::check_timestamp
check_timestamp(c, self) ==
    IF args_is_zero(self) THEN handle_zero_date(c, self)
    ELSE check_timestamp_range(c, self, chrono_datetime(c.tz, self.year, self.month, self.day, self.hour, self.minute, self.second, self.micro))

\* TimeArgs::check: Option<TimeArgs>, with the warnings appended
check_unwrap(r, f, time_type) ==
    IF r.tag = "Err" THEN [val |-> None, warn |-> r.warn]
    ELSE IF r.val = None THEN [val |-> Some(TimeArgsZero(f, time_type)), warn |-> r.warn]
    ELSE [val |-> r.val, warn |-> r.warn]

\* the match of TimeArgs::check on the time type
check_match(c, self) ==
    IF self.time_type = "Timestamp" THEN check_timestamp(c, self) ELSE check_datetime(c, self)

check_with_fsp(c, self, f) ==
    IF f = None THEN [val |-> None, warn |-> 0]
    ELSE check_unwrap(check_match(c, [self EXCEPT !.fsp = f[1]]), f[1], self.time_type)

\* TimeArgs::check: Option<TimeArgs>, with the warnings appended
check(c, self) == check_with_fsp(c, self, check_fsp(self.fsp))
----------------------------------------------------------------------------
(* the time codec: the Time bitfield *)

\* bitfield Time(u64): a setter keeps the low bits that fit the field
\* [year:14][month:4][day:5][hour:5][minute:6][second:6][micro:20][fsp_tt:4]
YEAR_BITS == 16384

MONTH_BITS == 16

DAY_BITS == 32

HOUR_BITS == 32

MINUTE_BITS == 64

SECOND_BITS == 64

MICRO_BITS == 1048576

\* fsp_tt of a Date
FSP_TT_DATE == 14

\* Time::get_time_type
get_time_type(t) ==
    IF t.fsp_tt \div 2 = 7 THEN "Date"
    ELSE IF t.fsp_tt % 2 = 0 THEN "DateTime"
    ELSE "Timestamp"

\* Time::fsp
fsp(t) == IF get_time_type(t) = "Date" THEN 0 ELSE t.fsp_tt \div 2

\* Time::set_tt
set_tt(t, time_type) ==
    LET ft == IF t.fsp_tt = FSP_TT_DATE /\ time_type # "Date" THEN 0 ELSE t.fsp_tt
        mask == CASE time_type = "Date" -> FSP_TT_DATE
                  [] time_type = "DateTime" -> ft - (ft % 2)
                  [] time_type = "Timestamp" -> ft - (ft % 2) + 1
    IN  [t EXCEPT !.fsp_tt = mask]

\* Time::set_fsp, of a u8
set_fsp(t, f) ==
    IF get_time_type(t) = "Date" THEN t
    ELSE LET g == IF f > MAX_FSP THEN MAX_FSP ELSE f
         IN  [t EXCEPT !.fsp_tt = ((g * 2) % 16) + (t.fsp_tt % 2)]

\* Time::unchecked_new
unchecked_new(config) ==
    LET t == [ year |-> config.year % YEAR_BITS,
               month |-> config.month % MONTH_BITS,
               day |-> config.day % DAY_BITS,
               hour |-> config.hour % HOUR_BITS,
               minute |-> config.minute % MINUTE_BITS,
               second |-> config.second % SECOND_BITS,
               micro |-> config.micro % MICRO_BITS,
               fsp_tt |-> 0 ]
    IN  set_fsp(set_tt(t, config.time_type), config.fsp % (U8_MAX + 1))

\* Result<Time> and the warnings appended
TOk(t, warn) == [tag |-> "Ok", val |-> t, warn |-> warn]

TErr(warn) == [tag |-> "Err", val |-> NoTime, warn |-> warn]

\* a panic of the time codec
TPanic == [tag |-> "Panic", val |-> NoTime, warn |-> 0]

\* Time::new
new_date_fields(a) ==
    IF a.time_type = "Date"
    THEN [a EXCEPT !.hour = 0, !.minute = 0, !.second = 0, !.micro = 0, !.fsp = 0]
    ELSE a

new_checked(checked_args) ==
    IF checked_args.val = None THEN TErr(checked_args.warn)
    ELSE TOk(unchecked_new(new_date_fields(checked_args.val[1])), checked_args.warn)

\* Time::new
TimeNew(c, config) == new_checked(check(c, config))

\* Time::from_slice: Option<Time> as a Result<Time>
from_slice(c, parts, time_type, f) ==
    IF Len(parts) # 7 THEN TErr(0)
    ELSE TimeNew(c, TimeArgs(parts[1], parts[2], parts[3], parts[4], parts[5], parts[6], parts[7], f, time_type))

\* Time::is_zero
is_zero(t) ==
    /\ t.year = 0 /\ t.month = 0 /\ t.day = 0
    /\ t.hour = 0 /\ t.minute = 0 /\ t.second = 0 /\ t.micro = 0

\* the u64 of a Time with fsp_tt zeroed, as its fields from bit 63 down
Fields(t) == <<t.year, t.month, t.day, t.hour, t.minute, t.second, t.micro>>

\* a.0 < b.0 of two such u64: the first field that differs decides
RECURSIVE FieldsLt(_, _)
FieldsLt(a, b) ==
    IF a = <<>> THEN FALSE
    ELSE IF Head(a) # Head(b) THEN Head(a) < Head(b)
    ELSE FieldsLt(Tail(a), Tail(b))

\* impl PartialEq for Time
TimeEq(a, b) == Fields(a) = Fields(b)

\* impl Ord for Time: "Less", "Equal" or "Greater"
TimeCmp(a, b) ==
    IF FieldsLt(Fields(a), Fields(b)) THEN "Less"
    ELSE IF Fields(a) = Fields(b) THEN "Equal"
    ELSE "Greater"

\* Time::try_from_chrono_datetime of the local fields of a datetime
datetime_args(ymd, secs, micros, f, time_type) ==
    TimeArgs(ymd[1], ymd[2], ymd[3], secs \div 3600, (secs \div 60) % 60, secs % 60, micros, f, time_type)

\* Time::try_from_chrono_datetime of the local fields of a datetime
try_from_chrono_datetime(c, naive, time_type, f) ==
    TimeNew(c, datetime_args(CivilFromDays(naive.days), naive.secs, naive.micros, f, time_type))

\* Time::try_into_chrono_datetime
try_into_chrono_datetime(t, c) ==
    chrono_datetime(c.tz, t.year, t.month, t.day, t.hour, t.minute, t.second, t.micro)

\* Time::try_into_chrono_naive_datetime
try_into_chrono_naive_datetime(t) ==
    chrono_naive_datetime(t.year, t.month, t.day, t.hour, t.minute, t.second, t.micro)

----------------------------------------------------------------------------
(* the time codec: the sortable packed u64 *)

\* The packed u64 is kept at its full width as three limbs, most significant
\* first: bits 63..41 (ymd), bits 40..24 (hms) and bits 23..0 (micro).
YMD_LIMB == 8388608

HMS_LIMB == 131072

MICRO_LIMB == 16777216

PackedU64(ymd, hms, micro) == <<ymd, hms, micro>>

PACKED_ZERO == PackedU64(0, 0, 0)

\* a < b of two packed u64
PackedLt(a, b) == FieldsLt(a, b)

\* (((ymd << 17) | hms) << 24) | micro of u64 operands: bits shifted out of
\* the u64 are lost, bits of hms and micro above their limb are or-ed into
\* the limb above; the fields of a Time never reach above their limb
pack_ymd_hms_micro(ymd, hms, micro) ==
    PackedU64(ymd % YMD_LIMB, hms % HMS_LIMB, micro % MICRO_LIMB)

\* the Timestamp branch of Time::to_packed_u64: the fields in UTC
to_packed_u64_naive_utc(c, t, ts) ==
    IF ts = None THEN TErr(0)
    ELSE try_from_chrono_datetime(c, ts[1], get_time_type(t), fsp(t))

to_packed_u64_self(c, t) ==
    IF get_time_type(t) # "Timestamp" THEN TOk(t, 0)
    ELSE to_packed_u64_naive_utc(c, t, try_into_chrono_datetime(t, c))

\* the shifts of Time::to_packed_u64 with the year counted in twelve months
to_packed_u64_bits_radix12(self) ==
    pack_ymd_hms_micro((self.year * 12 + self.month) * DAY_BITS + self.day, self.hour * 4096 + self.minute * 64 + self.second, self.micro)

\* the shifts of Time::to_packed_u64
to_packed_u64_bits(self) ==
    pack_ymd_hms_micro((self.year * 13 + self.month) * DAY_BITS + self.day, self.hour * 4096 + self.minute * 64 + self.second, self.micro)

to_packed_u64_ok(self) ==
    IF self.tag # "Ok" THEN TErr(self.warn) ELSE TOk(to_packed_u64_bits(self.val), self.warn)

\* Time::to_packed_u64
to_packed_u64(c, t) ==
    IF is_zero(t) THEN TOk(PACKED_ZERO, 0) ELSE to_packed_u64_ok(to_packed_u64_self(c, t))

\* Time::from_packed_u64
from_packed_u64_utc(c, utc, time_type, f) ==
    IF utc = None THEN TErr(0)
    ELSE try_from_chrono_datetime(c, naive_local(c.tz, utc[1]), time_type, f)

from_packed_u64_fields(c, year, month, day, hms, micro, time_type, f) ==
    IF time_type = "Timestamp"
    THEN from_packed_u64_utc(c, chrono_datetime(0, year, month, day, hms \div 4096, (hms \div 64) % 64, hms % 64, micro), time_type, f)
    ELSE TOk(unchecked_new(TimeArgs(year, month, day, hms \div 4096, (hms \div 64) % 64, hms % 64, micro, f, time_type)), 0)

from_packed_u64_fsp(c, value, time_type, g) ==
    IF g = None THEN TErr(0)
    ELSE from_packed_u64_fields(c, (value[1] \div DAY_BITS) \div 13, (value[1] \div DAY_BITS) % 13, value[1] % DAY_BITS, value[2], value[3], time_type, g[1])

\* Time::from_packed_u64
from_packed_u64(c, value, time_type, f) ==
    IF value = PACKED_ZERO THEN TimeNew(c, TimeArgsZero(f, time_type))
    ELSE from_packed_u64_fsp(c, value, time_type, check_fsp(f))
----------------------------------------------------------------------------
(* the time codec: arithmetic with a Duration *)

\* a Duration, as the chrono::Duration::nanoseconds(rhs.to_nanos()) it becomes
Duration(secs, micros) == [secs |-> secs, micros |-> micros]

\* NaiveDate::from_ymd(y, m, 1) + chrono::Duration::days(day - 1) at h:m:s.micro
first_of_month_plus(year, month, t) ==
    NaiveNorm(DaysFromCivil(year, month, 1) + t.day - 1, t.hour * 3600 + t.minute * 60 + t.second, t.micro)

\* Time::normalized
normalized(c, t) ==
    IF get_time_type(t) = "Timestamp" THEN TOk(t, 0)
    ELSE IF t.day > last_day_of_month(t.year, t.month) \/ t.month = 0 \/ t.day = 0
    THEN IF t.month = 0 /\ ~(t.year >= 1) THEN TErr(0)
         ELSE IF t.month > 12 \/ t.hour > 23 \/ t.minute > 59 \/ t.second > 59
         THEN TPanic
         ELSE try_from_chrono_datetime(c, first_of_month_plus(IF t.month = 0 THEN t.year - 1 ELSE t.year, IF t.month = 0 THEN 12 ELSE t.month, t), get_time_type(t), fsp(t))
    ELSE TOk(t, 0)

\* Option<Time> of a Result<Time>, a panic kept
ok(r) == IF r.tag = "Err" THEN [r EXCEPT !.val = NoTime] ELSE r

\* the shared body of checked_add and checked_sub: `secs`, `micros` signed
checked_add_sub_from(c, datetime, f, warn) ==
    IF datetime = None THEN TErr(warn)
    ELSE ok(Warned(try_from_chrono_datetime(c, datetime[1], "Timestamp", f), warn))

\* datetime.checked_add_signed(duration) of a DateTime<Tz>: its local fields
checked_add_signed_tz(c, datetime, secs, micros) ==
    IF datetime = None THEN None
    ELSE Some(naive_local(c.tz, checked_add_signed(datetime[1], secs, micros)))

\* naive.checked_add_signed(duration) of an Option<NaiveDateTime>
checked_add_signed_naive(naive, secs, micros) ==
    IF naive = None THEN None ELSE Some(checked_add_signed(naive[1], secs, micros))

checked_add_sub_sum(c, t, n, secs, micros) ==
    IF get_time_type(t) = "Timestamp"
    THEN checked_add_signed_tz(c, try_into_chrono_datetime(n, c), secs, micros)
    ELSE checked_add_signed_naive(try_into_chrono_naive_datetime(n), secs, micros)

checked_add_sub_normalized(c, t, n, secs, micros) ==
    IF n.tag # "Ok" THEN ok(n)
    ELSE checked_add_sub_from(c, checked_add_sub_sum(c, t, n.val, secs, micros), fsp(t), n.warn)

\* the shared body of checked_add and checked_sub: `secs`, `micros` signed
checked_add_sub(c, t, secs, micros) == checked_add_sub_normalized(c, t, normalized(c, t), secs, micros)

\* Time::checked_add
checked_add(c, t, rhs) == checked_add_sub(c, t, rhs.secs, rhs.micros)

\* Time::checked_sub
checked_sub(c, t, rhs) == checked_add_sub(c, t, -rhs.secs, -rhs.micros)

----------------------------------------------------------------------------
(* the time codec: parsing a fraction *)

\* modulus[i] of round_components for i in 1..=6
modulus(parts, i) ==
    CASE i = 1 -> 12
      [] i = 2 -> last_day_of_month(parts[1], parts[2])
      [] i = 3 -> 24
      [] i = 4 -> 60
      [] i = 5 -> 60
      [] i = 6 -> MICROS_PER_SEC

\* parts[i - 1] > modulus[i - 1]; modulus[0] is u32::MAX
above_modulus(parts, mods, i) == IF i = 1 THEN FALSE ELSE parts[i] > mods[i - 1]

\* the loop of round_components from index i down to 1: parts[i] of the
\* code is parts[i + 1] here
RECURSIVE round_components_from(_, _, _)
round_components_from(parts, mods, i) ==
    IF i = 0 THEN Some(parts)
    ELSE IF parts[i + 1] >= mods[i] + (IF i < 3 THEN 1 ELSE 0)
    THEN LET p == [parts EXCEPT ![i + 1] = @ - mods[i]]
         IN  IF (i < 4 /\ p[i] = 0) \/ above_modulus(p, mods, i) THEN None
             ELSE round_components_from([p EXCEPT ![i] = @ + 1], mods, i - 1)
    ELSE round_components_from(parts, mods, i - 1)

\* round_components: Option<parts>
round_components(parts) ==
    round_components_from(parts, [i \in 1..6 |-> modulus(parts, i)], 6)

\* round_frac: (carry, result)
round_frac(frac, f) ==
    IF frac < 1000000 /\ f = 6 THEN <<FALSE, frac>>
    ELSE LET width == IF frac >= 1000000 THEN 7 ELSE 6
             mask == TenPow(width - f - 1)
             result == ((frac \div mask + 5) \div 10) * mask * (IF width = 6 THEN 10 ELSE 1)
         IN  <<result >= 1000000, result>>

\* parser::bytes_to_u32: Option<u32> of ASCII digits
RECURSIVE bytes_to_u32_from(_, _)
bytes_to_u32_from(input, acc) ==
    IF input = <<>> THEN Some(acc)
    ELSE IF Head(input) < 48 \/ Head(input) > 57 THEN None
    ELSE IF acc > 429496729 \/ (acc = 429496729 /\ Head(input) - 48 > 5) THEN None
    ELSE bytes_to_u32_from(Tail(input), acc * 10 + (Head(input) - 48))

bytes_to_u32(input) == bytes_to_u32_from(input, 0)

\* parser::parse_frac: Option<(carry, frac)>
parse_frac(input, f, round) ==
    LET len == IF f >= Len(input) THEN Len(input) ELSE f + (IF round THEN 1 ELSE 0)
        n == bytes_to_u32(Take(input, len))
    IN  IF n = None THEN None
        ELSE LET frac == n[1] * TenPow(IF MICRO_WIDTH > len THEN MICRO_WIDTH - len ELSE 0)
             IN  Some(IF round THEN round_frac(frac, f) ELSE <<FALSE, frac>>)

\* parser::adjust_year
adjust_year(year) ==
    IF year <= 69 THEN 2000 + year
    ELSE IF year >= 70 /\ year <= 99 THEN 1900 + year
    ELSE year

\* parser::parse of an input that split_components_with_tz has split into
\* three to seven components and no time zone (the forms without
\* separators, which go through parse_whole, are not modelled)
parser_parse_rounded(c, rounded, time_type, f) ==
    IF rounded = None THEN TErr(0) ELSE from_slice(c, rounded[1], time_type, f)

parser_parse_adjusted(c, adjusted, carry, time_type, f) ==
    parser_parse_rounded(c, IF carry THEN round_components(adjusted) ELSE Some(adjusted), time_type, f)

parser_parse_parts(c, parts, two_digit_year, carry, time_type, f) ==
    parser_parse_adjusted(c, IF two_digit_year /\ (\E i \in 1..7 : parts[i] # 0) THEN [parts EXCEPT ![1] = adjust_year(@)] ELSE parts, carry, time_type, f)

parser_parse_frac(c, components, nums, cf, time_type, f) ==
    IF cf = None THEN TErr(0)
    ELSE parser_parse_parts(c, [i \in 1..7 |-> IF i <= Len(nums) THEN nums[i][1] ELSE IF i = 7 THEN cf[1][2] ELSE 0], Len(components[1]) = 2, cf[1][1], time_type, f)

parser_parse_whole(c, components, nums, time_type, f, round) ==
    IF \E i \in 1..Len(nums) : nums[i] = None THEN TErr(0)
    ELSE parser_parse_frac(c, components, nums, IF Len(components) = 7 THEN parse_frac(components[7], f, round) ELSE Some(<<FALSE, 0>>), time_type, f)

\* parser::parse of an input that split_components_with_tz has split into
\* three to seven components and no time zone (the forms without
\* separators, which go through parse_whole, are not modelled)
parser_parse(c, components, time_type, f, round) ==
    IF Len(components) < 3 \/ Len(components) > 7 THEN TErr(0)
    ELSE parser_parse_whole(c, components, [i \in 1..(IF Len(components) < 6 THEN Len(components) ELSE 6) |-> bytes_to_u32(components[i])], time_type, f, round)

\* Time::parse_datetime
parse_datetime_fsp(c, components, g, round) ==
    IF g = None THEN TErr(0) ELSE parser_parse(c, components, "DateTime", g[1], round)

\* Time::parse_datetime
parse_datetime(c, components, f, round) == parse_datetime_fsp(c, components, check_fsp(f), round)
----------------------------------------------------------------------------
(* the callers of the time codec *)

NoLock == [tag |-> "none"]

\* the lock codec is not in use
LockIdle == lock = NoLock /\ buf = <<>> /\ parsed = NoResult /\ checked = NoCheck

\* Tz::from_offset of UTC-11, UTC and UTC+8 (Etc/GMT+11, UTC, Etc/GMT-8)
TZ_WEST == -39600

TZ_UTC == 0

TZ_EAST == 28800

TzInputs == {TZ_WEST, TZ_UTC, TZ_EAST}

SqlModeInputs ==
    (SUBSET {"STRICT_TRANS_TABLES", "NO_ZERO_DATE", "NO_ZERO_IN_DATE", "INVALID_DATES"})
        \cup {{"STRICT_ALL_TABLES", "NO_ZERO_DATE"}}

FlagInputs == {{}, {"IGNORE_TRUNCATE"}}

\* EvalContext::default()
DefaultCtx == EvalContext({}, {}, TZ_UTC)

PackedCtxs == {EvalContext(m, f, z) : m \in SqlModeInputs, f \in FlagInputs, z \in TzInputs}

\* the arguments of Time::new in the packed round trip
PackedArgs ==
    { TimeArgs(0, 0, 0, 0, 0, 0, 0, 0, "DateTime"),
      TimeArgs(2019, 1, 1, 0, 0, 0, 123456, 6, "DateTime"),
      TimeArgs(2010, 10, 10, 10, 11, 11, 0, 0, "DateTime"),
      TimeArgs(2007, 0, 1, 0, 0, 0, 999999, 6, "DateTime"),
      TimeArgs(2017, 1, 0, 0, 0, 0, 999999, 6, "DateTime"),
      TimeArgs(2027, 4, 31, 0, 0, 0, 999999, 6, "DateTime"),
      TimeArgs(2019, 13, 1, 0, 0, 0, 0, 0, "DateTime"),
      TimeArgs(2019, 1, 1, 24, 0, 0, 0, 0, "DateTime"),
      TimeArgs(9999, 12, 31, 23, 59, 59, 999999, 6, "DateTime"),
      TimeArgs(0, 1, 1, 0, 0, 0, 0, 0, "DateTime"),
      TimeArgs(2020, 2, 29, 0, 0, 0, 0, 3, "DateTime"),
      TimeArgs(0, 0, 0, 0, 0, 0, 0, 0, "Timestamp"),
      TimeArgs(1970, 1, 1, 0, 0, 0, 0, 0, "Timestamp"),
      TimeArgs(1970, 1, 1, 8, 0, 1, 0, 0, "Timestamp"),
      TimeArgs(2019, 7, 1, 12, 13, 14, 999000, 6, "Timestamp"),
      TimeArgs(2038, 1, 18, 16, 14, 7, 0, 0, "Timestamp"),
      TimeArgs(2038, 1, 19, 3, 14, 7, 0, 0, "Timestamp"),
      TimeArgs(2038, 1, 19, 3, 14, 8, 0, 0, "Timestamp") }

InitPacked ==
    /\ LockIdle
    /\ ctx \in PackedCtxs
    /\ aux \in PackedArgs
    /\ time = NoTime
    /\ out = NoOut
    /\ pc = "args"

\* Time::new(ctx, args)
New ==
    /\ pc = "args"
    /\ out' = TimeNew(ctx, aux)
    /\ time' = out'.val
    /\ pc' = IF out'.tag = "Ok" THEN "valid" ELSE "rejected"
    /\ UNCHANGED <<lock, buf, parsed, checked, ctx, aux>>

\* time.to_packed_u64(ctx)
ToPackedU64 ==
    /\ pc = "valid"
    /\ out' = to_packed_u64(ctx, time)
    /\ pc' = "packed"
    /\ UNCHANGED <<lock, buf, parsed, checked, ctx, time, aux>>

\* Time::from_packed_u64(ctx, packed, time.get_time_type(), time.fsp())
FromPackedU64 ==
    /\ pc = "packed"
    /\ out.tag = "Ok"
    /\ aux' = out.val
    /\ out' = from_packed_u64(ctx, out.val, get_time_type(time), fsp(time))
    /\ pc' = "unpacked"
    /\ UNCHANGED <<lock, buf, parsed, checked, ctx, time>>

NextPacked == New \/ ToPackedU64 \/ FromPackedU64

SpecPacked == InitPacked /\ [][NextPacked]_vars

\* the fields of well-formed DateTime values, the ends of every range
OrderArgs ==
    { TimeArgs(y, m, d, h, mi, s, u, 6, "DateTime") :
        y \in {0, 2019, 2020, 9999}, m \in {0, 1, 12}, d \in {0, 1, 31},
        h \in {0, 23}, mi \in {0, 59}, s \in {0, 59}, u \in {0, 999999} }

OtherArgs ==
    { TimeArgs(y, m, d, h, 0, s, u, 0, "DateTime") :
        y \in {0, 2019, 2020}, m \in {0, 1, 12}, d \in {0, 1, 31},
        h \in {0, 23}, s \in {0, 59}, u \in {0, 999999} }

\* a DateTime as from_packed_u64 builds it, unchecked
InitOrder ==
    /\ LockIdle
    /\ ctx = DefaultCtx
    /\ aux = NoAux
    /\ time \in {unchecked_new(a) : a \in OrderArgs}
    /\ out = NoOut
    /\ pc = "valid"

\* time.cmp(&other), time.to_packed_u64(ctx) and other.to_packed_u64(ctx)
Compare ==
    /\ pc = "valid"
    /\ \E b \in OtherArgs :
          /\ aux' = unchecked_new(b)
          /\ out' = [ tag |-> "cmp",
                      ord |-> TimeCmp(time, aux'),
                      a |-> to_packed_u64(ctx, time),
                      b |-> to_packed_u64(ctx, aux') ]
    /\ pc' = "compared"
    /\ UNCHANGED <<lock, buf, parsed, checked, ctx, time>>

NextOrder == Compare

SpecOrder == InitOrder /\ [][NextOrder]_vars

ArithCtxs == {EvalContext(m, {}, z) : m \in {{}, {"INVALID_DATES"}}, z \in {TZ_UTC, TZ_EAST}}

\* the operands of checked_add and checked_sub
ArithArgs ==
    { TimeArgs(2018, 12, 30, 11, 30, 45, 123456, 6, "DateTime"),
      TimeArgs(2019, 4, 31, 0, 0, 0, 0, 0, "DateTime"),
      TimeArgs(2019, 0, 1, 0, 0, 0, 0, 0, "DateTime"),
      TimeArgs(2019, 2, 0, 0, 0, 0, 0, 0, "DateTime"),
      TimeArgs(9999, 12, 31, 23, 59, 59, 0, 6, "DateTime"),
      TimeArgs(0, 1, 1, 0, 0, 1, 0, 6, "DateTime"),
      TimeArgs(2040, 1, 1, 0, 0, 0, 0, 0, "DateTime"),
      TimeArgs(1969, 12, 31, 23, 59, 59, 0, 0, "DateTime"),
      TimeArgs(2038, 1, 19, 3, 14, 7, 0, 0, "DateTime"),
      TimeArgs(0, 0, 0, 0, 0, 0, 0, 0, "DateTime"),
      TimeArgs(2018, 12, 30, 11, 30, 45, 123456, 6, "Timestamp"),
      TimeArgs(2038, 1, 19, 3, 14, 7, 0, 0, "Timestamp"),
      TimeArgs(1970, 1, 1, 8, 0, 0, 0, 0, "Timestamp") }

\* 00:00:14.876545, 00:30:00, 12:30:00, 1 12:30:00, 01:00:00 and 00:00:01
DurationInputs ==
    { Duration(14, 876545), Duration(1800, 0), Duration(45000, 0),
      Duration(131400, 0), Duration(3600, 0), Duration(1, 0) }

InitArith ==
    /\ LockIdle
    /\ ctx \in ArithCtxs
    /\ aux \in ArithArgs
    /\ time = NoTime
    /\ out = NoOut
    /\ pc = "args"

\* time.checked_add(ctx, rhs)
CheckedAdd ==
    /\ pc = "valid"
    /\ \E rhs \in DurationInputs :
          out' = [ tag |-> "arith", secs |-> rhs.secs, micros |-> rhs.micros,
                   res |-> checked_add(ctx, time, rhs) ]
    /\ pc' = "computed"
    /\ UNCHANGED <<lock, buf, parsed, checked, ctx, time, aux>>

\* time.checked_sub(ctx, rhs)
CheckedSub ==
    /\ pc = "valid"
    /\ \E rhs \in DurationInputs :
          out' = [ tag |-> "arith", secs |-> -rhs.secs, micros |-> -rhs.micros,
                   res |-> checked_sub(ctx, time, rhs) ]
    /\ pc' = "computed"
    /\ UNCHANGED <<lock, buf, parsed, checked, ctx, time, aux>>

NextArith == New \/ CheckedAdd \/ CheckedSub

SpecArith == InitArith /\ [][NextArith]_vars

\* the longest fraction of an input
MaxFracLen == 7

\* b'0', b'4', b'5' and b'9'
FracDigits == {48, 52, 53, 57}

FracInputs == SeqsUpTo(FracDigits, MaxFracLen)

\* the components of "2019-12-31 23:59:59"
BaseComponents == << <<50, 48, 49, 57>>, <<49, 50>>, <<51, 49>>, <<50, 51>>, <<53, 57>>, <<53, 57>> >>

InitFrac ==
    /\ LockIdle
    /\ ctx = DefaultCtx
    /\ aux \in { [components |-> Append(BaseComponents, d), fsp |-> f, round |-> r] :
                    d \in FracInputs, f \in 0..MAX_FSP, r \in BOOLEAN }
    /\ time = NoTime
    /\ out = NoOut
    /\ pc = "input"

\* Time::parse_datetime(ctx, input, fsp, round)
ParseDatetime ==
    /\ pc = "input"
    /\ out' = parse_datetime(ctx, aux.components, aux.fsp, aux.round)
    /\ time' = out'.val
    /\ pc' = "parsed_time"
    /\ UNCHANGED <<lock, buf, parsed, checked, ctx, aux>>

NextFrac == ParseDatetime

SpecFrac == InitFrac /\ [][NextFrac]_vars

----------------------------------------------------------------------------
(* the time codec: the packed round trip, its order, the arithmetic and the
   rounding of a parsed fraction *)

\* C7 as stated: for every validated Time T of type DateTime or Timestamp,
\* under every SQL mode and time zone, T.to_packed_u64() succeeds and
\* from_packed_u64 of it, with T's type and precision, succeeds and equals T.
C7_PackedRoundTrip ==
    (pc \in {"packed", "unpacked"} /\ get_time_type(time) \in {"DateTime", "Timestamp"}) =>
        /\ out.tag = "Ok"
        /\ pc = "unpacked" => TimeEq(out.val, time)

\* the packed form as C8 writes it
PackedForm(t) ==
    PackedU64((t.year * 13 + t.month) * 32 + t.day, t.hour * 4096 + t.minute * 64 + t.second, t.micro)

\* C8: the packed form of a well-formed DateTime is
\* ((((year*13 + month) << 5 | day) << 17 | hour<<12 | minute<<6 | second) << 24) | micro,
\* a < b in the Time ordering exactly when packed(a) < packed(b), and the
\* packed values are equal only when a == b.
C8_PackedOrder ==
    pc = "compared" =>
        /\ out.a = TOk(PackedForm(time), 0)
        /\ out.b = TOk(PackedForm(aux), 0)
        /\ out.ord = "Less" <=> PackedLt(out.a.val, out.b.val)
        /\ out.ord = "Greater" <=> PackedLt(out.b.val, out.a.val)
        /\ out.a.val = out.b.val => TimeEq(time, aux)

\* C8 witness: 2019-12-31 was compared with 2020-00-00, the month after
\* December against month zero of the next year, and both orders say Less.
C8_Witness ==
    /\ pc = "compared"
    /\ time.year = 2019 /\ time.month = 12 /\ time.day = 31
    /\ aux.year = 2020 /\ aux.month = 0 /\ aux.day = 0
    /\ out.ord = "Less"
    /\ PackedLt(out.a.val, out.b.val)

\* the normalized operand of C9 as a calendar date and time of day
NormalizedNaive(t) ==
    IF t.month = 0 THEN first_of_month_plus(t.year - 1, 12, t)
    ELSE first_of_month_plus(t.year, t.month, t)

\* the fields of a calendar date and time of day
NaiveFields(n) ==
    LET ymd == CivilFromDays(n.days)
    IN  <<ymd[1], ymd[2], ymd[3], n.secs \div 3600, (n.secs \div 60) % 60, n.secs % 60, n.micros>>

\* C9 as stated: for a DateTime operand that normalizes, checked_add and
\* checked_sub return the naive calendar sum of the normalized value and the
\* duration whenever its year lies in [0, 9999], and no result otherwise.
C9_DateTimeNaiveSum ==
    (pc = "computed" /\ get_time_type(time) = "DateTime" /\ normalized(ctx, time).tag = "Ok") =>
        LET sum == checked_add_signed(NormalizedNaive(time), out.secs, out.micros)
            year == CivilFromDays(sum.days)[1]
        IN  IF year >= 0 /\ year <= 9999
            THEN out.res.tag = "Ok" /\ Fields(out.res.val) = NaiveFields(sum)
            ELSE out.res.tag = "Err"

\* the digit i of a fraction, 0 past its end
FracDigit(d, i) == IF i <= Len(d) THEN d[i] - 48 ELSE 0

\* the first n digits of a fraction as a number
RECURSIVE FracPrefix(_, _)
FracPrefix(d, n) == IF n = 0 THEN 0 ELSE FracPrefix(d, n - 1) * 10 + FracDigit(d, n)

\* the fraction rounded half-up (or cut, without round) to f digits, in units
\* of 10^-f: 10^f when the rounding carries
FracRounded(d, f, round) ==
    FracPrefix(d, f) + (IF round /\ FracDigit(d, f + 1) >= 5 THEN 1 ELSE 0)

\* C10 as stated: parsing with precision fsp gives the micro field of the
\* fraction rounded half-up to fsp digits, one second later when the rounded
\* fraction reaches 1.000000, and of the fraction cut to fsp digits without
\* round, for every fsp in 0..=6 and every fraction.
C10_FractionRounded ==
    pc = "parsed_time" =>
        LET r == FracRounded(aux.components[7], aux.fsp, aux.round)
        IN  /\ out.tag = "Ok"
            /\ r < TenPow(aux.fsp) =>
                  Fields(time) = <<2019, 12, 31, 23, 59, 59, r * TenPow(6 - aux.fsp)>>
            /\ r = TenPow(aux.fsp) => Fields(time) = <<2020, 1, 1, 0, 0, 0, 0>>

----------------------------------------------------------------------------
(* the time codec: validation of the arguments of Time::new under each     *)
(* SQL mode, flag and session time zone                                    *)

ValidateCtxs == { EvalContext(sm, fl, tz) : sm \in SqlModeInputs, fl \in FlagInputs, tz \in TzInputs }

\* dates and datetimes with zero, in-range, past-month-end and out-of-range fields
ValidateDateArgs == { TimeArgs(y, m, d, 0, 0, 0, 0, 0, tt) : y \in {0, 2019, 2020, 10000}, m \in {0, 2, 12, 13}, d \in {0, 29, 31, 32}, tt \in {"Date", "DateTime"} }

\* datetimes with the time of day at and past its bounds
ValidateHmsArgs == { TimeArgs(2019, 2, d, h, mi, s, 0, 6, "DateTime") : d \in {28, 31}, h \in {23, 24}, mi \in {59, 60}, s \in {59, 60} }

\* timestamps around the bounds of the 32-bit epoch and broken calendar dates
ValidateTimestampArgs ==
    { TimeArgs(y, 1, d, h, mi, s, u, 6, "Timestamp") : y \in {1970, 2038}, d \in {1, 18, 19}, h \in {0, 3, 8, 16}, mi \in {0, 14}, s \in {0, 7, 8}, u \in {0, 999999} }
    \cup { TimeArgs(1969, 12, 31, h, 59, 59, 0, 6, "Timestamp") : h \in {12, 13, 23} }
    \cup { TimeArgs(y, m, d, 0, 0, 0, 0, 0, "Timestamp") : y \in {0, 2019, 2020}, m \in {0, 2, 13}, d \in {0, 29, 30} }
    \cup { TimeArgs(2019, 1, 1, h, mi, s, 0, 0, "Timestamp") : h \in {23, 24}, mi \in {59, 60}, s \in {59, 60} }

ValidateArgs == ValidateDateArgs \cup ValidateHmsArgs \cup ValidateTimestampArgs

InitValidate ==
    /\ LockIdle
    /\ ctx \in ValidateCtxs
    /\ aux \in ValidateArgs
    /\ time = NoTime
    /\ out = NoOut
    /\ pc = "args"

NextValidate == New

SpecValidate == InitValidate /\ [][NextValidate]_vars

\* every non-zero field of the arguments is within its calendar range
FieldsInRange(a) ==
    /\ a.year <= 9999 /\ a.month <= 12 /\ a.day <= 31
    /\ a.hour <= 23 /\ a.minute <= 59 /\ a.second <= 59 /\ a.micro <= 999999

\* the zero date, or a date or datetime with a zero month or day
ZeroKind(a) == args_is_zero(a) \/ (a.time_type # "Timestamp" /\ (a.month = 0 \/ a.day = 0))

\* a flag that forbids the value is set
ZeroForbidden(c, a) ==
    \/ args_is_zero(a) /\ "NO_ZERO_DATE" \in c.sql_mode
    \/ a.time_type # "Timestamp" /\ (a.month = 0 \/ a.day = 0) /\ "NO_ZERO_IN_DATE" \in c.sql_mode

\* strict SQL mode without the IGNORE_TRUNCATE flag
StrictNoIgnore(c) ==
    /\ c.sql_mode \cap {"STRICT_TRANS_TABLES", "STRICT_ALL_TABLES"} # {}
    /\ "IGNORE_TRUNCATE" \notin c.flag

NonZeroDate(a) == a.time_type \in {"Date", "DateTime"} /\ a.month >= 1 /\ a.day >= 1

\* a field is past the range that INVALID_DATES still enforces
OutOfRange(a) ==
    \/ a.month > 12 \/ a.day > 31 \/ a.year > 9999
    \/ a.hour > 23 \/ a.minute > 59 \/ a.second > 59

\* the day is past the last day of its month
PastMonthEnd(a) == a.month \in 1..12 /\ a.day <= 31 /\ a.day > last_day_of_month(a.year, a.month)

\* C12 as stated: with INVALID_DATES a date or datetime within month <= 12
\* and day <= 31 is accepted as given and an out-of-range one becomes the
\* zero value; without INVALID_DATES a day past the month's end and each
\* out-of-range value is an error.
C12_InvalidDates ==
    (pc \in {"valid", "rejected"} /\ NonZeroDate(aux)) =>
        IF "INVALID_DATES" \in ctx.sql_mode
        THEN IF OutOfRange(aux)
             THEN out.tag = "Ok" /\ out.val = unchecked_new(TimeArgsZero(aux.fsp, aux.time_type))
             ELSE out = TOk(unchecked_new(aux), 0)
        ELSE (OutOfRange(aux) \/ PastMonthEnd(aux)) => out.tag = "Err"

\* C12, amended: as stated, except that the zero value of an out-of-range
\* date goes through the NO_ZERO_DATE check: under NO_ZERO_DATE it is an
\* error in strict mode without IGNORE_TRUNCATE and the zero value with one
\* warning otherwise; without NO_ZERO_DATE it is the zero value without a
\* warning.
C12_InvalidDatesZeroChecked ==
    (pc \in {"valid", "rejected"} /\ NonZeroDate(aux)) =>
        IF "INVALID_DATES" \in ctx.sql_mode
        THEN IF OutOfRange(aux)
             THEN IF "NO_ZERO_DATE" \in ctx.sql_mode
                  THEN IF StrictNoIgnore(ctx)
                       THEN out.tag = "Err" /\ out.warn = 0
                       ELSE out = TOk(unchecked_new(TimeArgsZero(aux.fsp, aux.time_type)), 1)
                  ELSE out = TOk(unchecked_new(TimeArgsZero(aux.fsp, aux.time_type)), 0)
             ELSE out = TOk(unchecked_new(aux), 0)
        ELSE IF OutOfRange(aux) \/ PastMonthEnd(aux)
             THEN out.tag = "Err" /\ out.warn = 0
             ELSE out = TOk(unchecked_new(aux), 0)

\* 2019-02-31 was accepted as given under INVALID_DATES
C12_Witness ==
    /\ pc = "valid"
    /\ "INVALID_DATES" \in ctx.sql_mode
    /\ aux = TimeArgs(2019, 2, 31, 23, 59, 59, 0, 6, "DateTime")
    /\ Fields(out.val) = <<2019, 2, 31, 23, 59, 59, 0>>
    /\ out.warn = 0

\* the arguments name an existing day of the calendar and time of the day
ExistingInstant(a) ==
    /\ a.month \in 1..12 /\ a.day >= 1 /\ a.day <= last_day_of_month(a.year, a.month)
    /\ a.hour <= 23 /\ a.minute <= 59 /\ a.second <= 59 /\ a.micro <= 999999

\* the calendar fields, in UTC, of the instant that `a` denotes in the zone of `c`
UtcFields(c, a) == NaiveFields(checked_add_signed(NaiveNorm(DaysFromCivil(a.year, a.month, a.day), a.hour * 3600 + a.minute * 60 + a.second, a.micro), -c.tz, 0))

\* the UTC second count lies in [0, 2^31 - 1]: from 1970-01-01 00:00:00 to
\* the end of the second 2038-01-19 03:14:07
InEpoch(c, a) ==
    /\ ~FieldsLt(UtcFields(c, a), <<1970, 1, 1, 0, 0, 0, 0>>)
    /\ ~FieldsLt(<<2038, 1, 19, 3, 14, 7, 999999>>, UtcFields(c, a))

NonZeroTimestamp(a) == a.time_type = "Timestamp" /\ ~args_is_zero(a)

\* C13 as stated: a non-zero Timestamp is accepted as given when it is an
\* existing instant with a UTC second count in [0, 2^31 - 1]; any other is
\* an invalid date: the zero value with INVALID_DATES, an error without it.
C13_TimestampRange ==
    (pc \in {"valid", "rejected"} /\ NonZeroTimestamp(aux)) =>
        IF ExistingInstant(aux) /\ InEpoch(ctx, aux)
        THEN out = TOk(unchecked_new(aux), 0)
        ELSE IF "INVALID_DATES" \in ctx.sql_mode
             THEN out.tag = "Ok" /\ out.val = unchecked_new(TimeArgsZero(aux.fsp, aux.time_type))
             ELSE out.tag = "Err"

\* C13, amended: as stated, except that with INVALID_DATES the zero value
\* of an invalid Timestamp goes through the NO_ZERO_DATE check: an error in
\* strict mode without IGNORE_TRUNCATE, the zero value with one warning
\* otherwise, and the zero value without a warning when NO_ZERO_DATE is
\* unset.
C13_TimestampRangeZeroChecked ==
    (pc \in {"valid", "rejected"} /\ NonZeroTimestamp(aux)) =>
        IF ExistingInstant(aux) /\ InEpoch(ctx, aux)
        THEN out = TOk(unchecked_new(aux), 0)
        ELSE IF "INVALID_DATES" \in ctx.sql_mode
             THEN IF "NO_ZERO_DATE" \in ctx.sql_mode
                  THEN IF StrictNoIgnore(ctx)
                       THEN out.tag = "Err" /\ out.warn = 0
                       ELSE out = TOk(unchecked_new(TimeArgsZero(aux.fsp, aux.time_type)), 1)
                  ELSE out = TOk(unchecked_new(TimeArgsZero(aux.fsp, aux.time_type)), 0)
             ELSE out.tag = "Err" /\ out.warn = 0

\* with a UTC session 2038-01-19 03:14:07 was accepted as given
C13_Witness ==
    /\ pc = "valid"
    /\ ctx.tz = TZ_UTC
    /\ aux = TimeArgs(2038, 1, 19, 3, 14, 7, 0, 6, "Timestamp")
    /\ Fields(out.val) = <<2038, 1, 19, 3, 14, 7, 0>>
    /\ get_time_type(out.val) = "Timestamp"

----------------------------------------------------------------------------
(* the time codec: Time::parse_from_i64                                    *)
(*                                                                         *)
(* An i64 is [neg, a, b, c]: its sign and the three limbs of its magnitude *)
(* in base 10^6, a * 10^12 + b * 10^6 + c, so that b and c are the digits  *)
(* MMDD.. of the number read as YYYYMMDDhhmmss.                            *)

I64_LIMB == 1000000

I64(neg, a, b, c) == [neg |-> neg, a |-> a, b |-> b, c |-> c]

\* i64::MAX = 9_223_372_036_854_775_807
I64_MAX == I64(FALSE, 9223372, 36854, 775807)

\* x <= y of two non-negative i64
I64Le(x, y) ==
    \/ x.a < y.a
    \/ x.a = y.a /\ x.b < y.b
    \/ x.a = y.a /\ x.b = y.b /\ x.c <= y.c

\* the pattern lo..=hi of `match input`
I64Within(x, lo, hi) == ~x.neg /\ I64Le(lo, x) /\ I64Le(x, hi)

\* (v * 1_000_000) of a v below 10^12, as limbs
I64Stretch(v) == I64(FALSE, v \div I64_LIMB, v % I64_LIMB, 0)

\* `(x / 1_000_000) as u32` of a non-negative i64: the low 32 bits of
\* a * 10^6 + b as two 16-bit limbs, with 10^6 = 15 * 2^16 + 16960
ymd_low(a, b) == (a % LimbBase) * 16960 + b

ymd_as_u32(a, b) == << ((a \div LimbBase) * 16960 + (a % LimbBase) * 15 + ymd_low(a, b) \div LimbBase) % LimbBase, ymd_low(a, b) % LimbBase >>

\* ymd / 10_000 and ymd % 10_000 of that u32, with 2^16 = 6 * 10^4 + 5536
ymd_year(u) == 6 * u[1] + (u[1] * 5536 + u[2]) \div 10000

ymd_md(u) == (u[1] * 5536 + u[2]) % 10000

\* Time::from_aligned_i64: Time::new of the fields
from_aligned_fields(c, year, md, hms, time_type, f) == TimeNew(c, TimeArgs(year, md \div 100, md % 100, hms \div 10000, (hms % 10000) \div 100, hms % 100, 0, f, time_type))

\* Time::from_aligned_i64
from_aligned_i64(c, input, time_type, f) == from_aligned_fields(c, ymd_year(ymd_as_u32(input.a, input.b)), ymd_md(ymd_as_u32(input.a, input.b)), input.c, time_type, f)

\* parser::parse_from_i64: `let aligned = match input { .. }`
aligned_i64(input) ==
    CASE I64Within(input, I64(FALSE, 0, 0, 101), I64(FALSE, 0, 0, 691231)) -> Some(I64Stretch(input.c + 20000000))
      [] I64Within(input, I64(FALSE, 0, 0, 700101), I64(FALSE, 0, 0, 991231)) -> Some(I64Stretch(input.c + 19000000))
      [] I64Within(input, I64(FALSE, 0, 0, 991232), I64(FALSE, 0, 99, 991231)) -> Some(I64Stretch(input.b * I64_LIMB + input.c))
      [] I64Within(input, I64(FALSE, 0, 101, 0), I64(FALSE, 0, 691231, 235959)) -> Some(I64(FALSE, 20, input.b, input.c))
      [] I64Within(input, I64(FALSE, 0, 700101, 0), I64(FALSE, 0, 991231, 235959)) -> Some(I64(FALSE, 19, input.b, input.c))
      [] I64Within(input, I64(FALSE, 1, 0, 0), I64_MAX) -> Some(input)
      [] OTHER -> None

\* parser::parse_from_i64, after the match
parse_from_i64_aligned(c, aligned, time_type, f) ==
    IF aligned = None THEN TErr(0) ELSE from_aligned_i64(c, aligned[1], time_type, f)

\* parser::parse_from_i64: Option<Time> as a Result<Time>
parse_from_i64(c, input, time_type, f) ==
    IF input = I64(FALSE, 0, 0, 0) THEN TimeNew(c, TimeArgsZero(f, time_type))
    ELSE parse_from_i64_aligned(c, aligned_i64(input), time_type, f)

\* .ok_or_else(|| Error::incorrect_datetime_value(input))
ok_or_incorrect_datetime_value(r) ==
    [ tag |-> r.tag, val |-> r.val, warn |-> r.warn,
      err |-> IF r.tag = "Ok" THEN "none" ELSE "incorrect_datetime_value" ]

\* Time::parse_from_i64, after check_fsp(fsp)?
time_parse_from_i64_fsp(c, input, time_type, g) ==
    IF g = None THEN [tag |-> "Err", val |-> NoTime, warn |-> 0, err |-> "fsp"]
    ELSE ok_or_incorrect_datetime_value(parse_from_i64(c, input, time_type, g[1]))

\* Time::parse_from_i64
time_parse_from_i64(c, input, time_type, f) == time_parse_from_i64_fsp(c, input, time_type, check_fsp(f))

\* numbers at and around the bounds of every range, the numbers of
\* tests::test_parse_from_i64, and numbers whose YYYYMMDD part needs more
\* than 32 bits
I64Inputs ==
    { I64(FALSE, 0, 0, c) : c \in {0, 1, 100, 101, 450000, 691231, 691232, 700100, 700101, 991231, 991232, 999999} }
    \cup { I64(FALSE, 0, b, c) : b \in {10, 99, 100, 101, 691231, 700100, 700101, 991231, 999999}, c \in {0, 100, 235959, 235960, 991231, 991232, 999999} }
    \cup { I64(FALSE, a, b, c) : a \in {1, 10, 19, 20, 99, 100, 4294, 4315, 9223372}, b \in {0, 101, 990101, 157397, 36854, 987397}, c \in {0, 235959, 775807} }
    \cup { I64(TRUE, 0, 0, 1111), I64(TRUE, 0, 101, 0) }

I64Ctxs == { EvalContext(sm, {}, tz) : sm \in {{}, {"STRICT_TRANS_TABLES"}}, tz \in TzInputs }

InitI64 ==
    /\ LockIdle
    /\ ctx \in I64Ctxs
    /\ aux \in { [input |-> i, time_type |-> tt, fsp |-> f] : i \in I64Inputs, tt \in TimeType, f \in {0, 6} }
    /\ time = NoTime
    /\ out = NoOut
    /\ pc = "number"

\* Time::parse_from_i64(ctx, input, time_type, fsp)
ParseFromI64 ==
    /\ pc = "number"
    /\ out' = time_parse_from_i64(ctx, aux.input, aux.time_type, aux.fsp)
    /\ time' = out'.val
    /\ pc' = "parsed_number"
    /\ UNCHANGED <<lock, buf, parsed, checked, ctx, aux>>

NextI64 == ParseFromI64

SpecI64 == InitI64 /\ [][NextI64]_vars

\* the input lies in one of the six legal ranges
LegalI64(x) ==
    /\ ~x.neg
    /\ \/ x.a = 0 /\ x.b = 0 /\ x.c \in 101..691231
       \/ x.a = 0 /\ x.b = 0 /\ x.c \in 700101..991231
       \/ x.a = 0 /\ x.b = 0 /\ x.c >= 991232
       \/ x.a = 0 /\ x.b \in 1..98
       \/ x.a = 0 /\ x.b = 99 /\ x.c <= 991231
       \/ x.a = 0 /\ x.b \in 101..691230
       \/ x.a = 0 /\ x.b = 691231 /\ x.c <= 235959
       \/ x.a = 0 /\ x.b \in 700101..991230
       \/ x.a = 0 /\ x.b = 991231 /\ x.c <= 235959
       \/ x.a >= 1

\* the digits YYYYMMDD and hhmmss of a legal input after alignment: a short
\* date gets 000000 as its time and a two-digit year its century
AlignedDigits(x) ==
    IF x.a >= 1 THEN <<x.a * 100 + x.b \div 10000, x.b % 10000, x.c>>
    ELSE IF x.b >= 700101 THEN <<1900 + x.b \div 10000, x.b % 10000, x.c>>
    ELSE IF x.b >= 101 THEN <<2000 + x.b \div 10000, x.b % 10000, x.c>>
    ELSE IF x.b >= 1 \/ x.c >= 991232 THEN <<(x.b * I64_LIMB + x.c) \div 10000, x.c % 10000, 0>>
    ELSE IF x.c >= 700101 THEN <<1900 + x.c \div 10000, x.c % 10000, 0>>
    ELSE <<2000 + x.c \div 10000, x.c % 10000, 0>>

\* the arguments that those digits spell
AlignedArgs(d, f, time_type) == TimeArgs(d[1], d[2] \div 100, d[2] % 100, d[3] \div 10000, (d[3] % 10000) \div 100, d[3] % 100, 0, f, time_type)

\* C14: parse_from_i64 gives the zero value for 0, the validated Time of the
\* aligned digits for an input in one of the six ranges, and the error
\* incorrect-datetime-value for any other input and for an input whose
\* aligned digits fail validation.
C14_I64Ranges ==
    pc = "parsed_number" =>
        IF aux.input = I64(FALSE, 0, 0, 0)
        THEN out.tag = "Ok" /\ is_zero(out.val)
        ELSE IF LegalI64(aux.input) /\ TimeNew(ctx, AlignedArgs(AlignedDigits(aux.input), aux.fsp, aux.time_type)).tag = "Ok"
        THEN out.tag = "Ok" /\ out.val = TimeNew(ctx, AlignedArgs(AlignedDigits(aux.input), aux.fsp, aux.time_type)).val
        ELSE out.tag = "Err" /\ out.err = "incorrect_datetime_value"

\* the same for the inputs whose YYYYMMDD part fits 32 bits
C14_I64RangesU32 ==
    (pc = "parsed_number" /\ aux.input.a < 4294) =>
        IF aux.input = I64(FALSE, 0, 0, 0)
        THEN out.tag = "Ok" /\ is_zero(out.val)
        ELSE IF LegalI64(aux.input) /\ TimeNew(ctx, AlignedArgs(AlignedDigits(aux.input), aux.fsp, aux.time_type)).tag = "Ok"
        THEN out.tag = "Ok" /\ out.val = TimeNew(ctx, AlignedArgs(AlignedDigits(aux.input), aux.fsp, aux.time_type)).val
        ELSE out.tag = "Err" /\ out.err = "incorrect_datetime_value"

----------------------------------------------------------------------------
(* i64 arithmetic of the date functions: an i64 is its two's complement in *)
(* four 16-bit limbs, most significant first. An operation that overflows  *)
(* panics in a build with overflow checks and wraps in one without.        *)

\* n as i64, for an n within 32 bits
i64_of(n) == <<(IF n < 0 THEN LimbBase - 1 ELSE 0), (IF n < 0 THEN LimbBase - 1 ELSE 0), (n \div LimbBase) % LimbBase, n % LimbBase>>

I64_MIN == <<32768, 0, 0, 0>>

i64_is_negative(x) == x[1] >= 32768

\* x.wrapping_add(y)
wrapping_add(x, y) ==
    LET c4 == x[4] + y[4]
        c3 == x[3] + y[3] + (c4 \div LimbBase)
        c2 == x[2] + y[2] + (c3 \div LimbBase)
        c1 == x[1] + y[1] + (c2 \div LimbBase)
    IN  <<c1 % LimbBase, c2 % LimbBase, c3 % LimbBase, c4 % LimbBase>>

\* x + y leaves the range of i64
add_overflows(x, y) ==
    /\ i64_is_negative(x) = i64_is_negative(y)
    /\ i64_is_negative(wrapping_add(x, y)) # i64_is_negative(x)

\* x.wrapping_neg()
wrapping_neg(x) == wrapping_add(<<LimbBase - 1 - x[1], LimbBase - 1 - x[2], LimbBase - 1 - x[3], LimbBase - 1 - x[4]>>, i64_of(1))

\* x / 12 of the limbs read as a u64
u64_div12(x) ==
    LET c1 == x[1]
        c2 == (c1 % 12) * LimbBase + x[2]
        c3 == (c2 % 12) * LimbBase + x[3]
        c4 == (c3 % 12) * LimbBase + x[4]
    IN  <<c1 \div 12, c2 \div 12, c3 \div 12, c4 \div 12>>

\* x % 12 of the limbs read as a u64
u64_rem12(x) == ((((((x[1] % 12) * LimbBase + x[2]) % 12) * LimbBase + x[3]) % 12) * LimbBase + x[4]) % 12

\* x / 12, rounded towards zero
i64_div12(x) == IF i64_is_negative(x) THEN wrapping_neg(u64_div12(wrapping_neg(x))) ELSE u64_div12(x)

\* x % 12, with the sign of x
i64_rem12(x) == IF i64_is_negative(x) THEN -u64_rem12(wrapping_neg(x)) ELSE u64_rem12(x)

\* x.wrapping_mul(12)
wrapping_mul12(x) ==
    LET c4 == x[4] * 12
        c3 == x[3] * 12 + (c4 \div LimbBase)
        c2 == x[2] * 12 + (c3 \div LimbBase)
        c1 == x[1] * 12 + (c2 \div LimbBase)
    IN  <<c1 % LimbBase, c2 % LimbBase, c3 % LimbBase, c4 % LimbBase>>

\* x * 12 leaves the range of i64
mul12_overflows(x) == i64_div12(wrapping_mul12(x)) # x

----------------------------------------------------------------------------
(* the time codec: Time::add_months *)

\* the result of add_months: Ok(()) with the new self, an error, or a panic
\* (an arithmetic overflow in a build with overflow checks, an index out of
\* bounds in every build)
MOk(t) == [tag |-> "Ok", val |-> t, err |-> "none"]

MErr(t, e) == [tag |-> "Err", val |-> t, err |-> e]

MPanic == [tag |-> "Panic", val |-> NoTime, err |-> "none"]

\* (0..=9999).contains(&current_year)
year_in_range(year) == year[1] = 0 /\ year[2] = 0 /\ year[3] = 0 /\ year[4] <= 9999

\* DAY_NUM_IN_MONTH[current_month] or DAY_NUM_IN_MONTH_LEAP_YEAR[current_month]
max_day(year, month) ==
    IF is_leap_year(year)
    THEN <<31, 29, 31, 30, 31, 30, 31, 31, 30, 31, 30, 31>>[month + 1]
    ELSE <<31, 28, 31, 30, 31, 30, 31, 31, 30, 31, 30, 31>>[month + 1]

\* Time::add_months: the overflow check of the year and the new fields
add_months_set(t, year, month) ==
    IF ~year_in_range(year) THEN MErr(t, "datetime_function_overflow")
    ELSE IF year[4] = 0 THEN MOk([t EXCEPT !.year = 0, !.month = 0, !.day = 0])
    ELSE IF ~(month[1] = 0 /\ month[2] = 0 /\ month[3] = 0 /\ month[4] < 12) THEN MPanic
    ELSE MOk([t EXCEPT !.year = year[4] % YEAR_BITS,
                       !.month = (month[4] + 1) % MONTH_BITS,
                       !.day = IF t.day < max_day(year[4], month[4]) THEN t.day ELSE max_day(year[4], month[4]) % DAY_BITS])

\* Time::add_months: year_decrease of a negative month count
year_decrease(x) == IF i64_rem12(x) # 0 THEN wrapping_add(i64_div12(x), i64_of(1)) ELSE i64_div12(x)

\* Time::add_months: the branch of a negative month count, after year_decrease
add_months_decrease(t, current_month, decrease, overflow_checks) ==
    IF overflow_checks /\ (mul12_overflows(decrease) \/ add_overflows(current_month, wrapping_mul12(decrease)))
    THEN MPanic
    ELSE add_months_set(t, wrapping_add(i64_of(t.year), wrapping_neg(decrease)), wrapping_add(current_month, wrapping_mul12(decrease)))

\* Time::add_months, after `current_month += months`
add_months_sum(t, current_month, overflow_checks) ==
    IF ~i64_is_negative(current_month)
    THEN add_months_set(t, wrapping_add(i64_of(t.year), i64_div12(current_month)), i64_of(i64_rem12(current_month)))
    ELSE IF overflow_checks /\ current_month = I64_MIN THEN MPanic
    ELSE add_months_decrease(t, current_month, year_decrease(wrapping_neg(current_month)), overflow_checks)

\* Time::add_months
add_months(t, months, overflow_checks) ==
    IF overflow_checks /\ add_overflows(i64_of(t.month - 1), months) THEN MPanic
    ELSE add_months_sum(t, wrapping_add(i64_of(t.month - 1), months), overflow_checks)

\* dates at the ends of the months and of the range of years
MonthsTimes == { unchecked_new(TimeArgs(y, m, d, 10, 11, 12, 0, 0, "DateTime")) : y \in {0, 1, 2023, 2024, 9999}, m \in {0, 1, 2, 8, 12}, d \in {0, 1, 28, 29, 30, 31} }

\* month counts within a few years, at the ends of the range of years, and
\* at the ends of i64
MonthsInputs ==
    { i64_of(n) : n \in {-120000, -119988, -24278, -24277, -25, -24, -13, -12, -11, -3, -2, -1, 0, 1, 2, 11, 12, 13, 24, 95700, 95712, 119987, 119988, 120000} }
    \cup { <<32767, 65535, 65535, 65535 - k>> : k \in 0..12 }
    \cup { <<32768, 0, 0, k>> : k \in 0..12 }
    \cup { <<0, 1, 0, 0>>, <<65535, 65534, 0, 0>> }

InitMonths ==
    /\ LockIdle
    /\ ctx = DefaultCtx
    /\ aux \in { [self |-> t, months |-> n, overflow_checks |-> oc] : t \in MonthsTimes, n \in MonthsInputs, oc \in BOOLEAN }
    /\ time = aux.self
    /\ out = NoOut
    /\ pc = "operand"

\* time.add_months(months)
AddMonths ==
    /\ pc = "operand"
    /\ out' = add_months(time, aux.months, aux.overflow_checks)
    /\ time' = out'.val
    /\ pc' = "months_added"
    /\ UNCHANGED <<lock, buf, parsed, checked, ctx, aux>>

NextMonths == AddMonths

SpecMonths == InitMonths /\ [][NextMonths]_vars

\* the month count is below 2^30 in magnitude
SmallI64(x) == (x[1] = 0 /\ x[2] = 0 /\ x[3] < 16384) \/ (x[1] = 65535 /\ x[2] = 65535 /\ x[3] >= 49152)

\* its value
SmallValue(x) == (IF x[1] = 0 THEN x[3] ELSE x[3] - LimbBase) * LimbBase + x[4]

\* the months from 0000-01 to the month `months` away from that of `t`
MonthIndex(t, months) == t.year * 12 + (t.month - 1) + SmallValue(months)

\* C15: add_months on a date with a month in 1..=12 gives the calendar
\* month `months` away with the day clamped to that month's last day, an
\* overflow error when the year leaves [0, 9999], and the all-zero date
\* when the year is 0.
C15_AddMonths ==
    (pc = "months_added" /\ aux.self.month \in 1..12) =>
        IF ~SmallI64(aux.months) \/ MonthIndex(aux.self, aux.months) \div 12 \notin 0..9999
        THEN out = MErr(aux.self, "datetime_function_overflow")
        ELSE IF MonthIndex(aux.self, aux.months) \div 12 = 0
        THEN out = MOk([aux.self EXCEPT !.year = 0, !.month = 0, !.day = 0])
        ELSE /\ out.tag = "Ok"
             /\ time.year = MonthIndex(aux.self, aux.months) \div 12
             /\ time.month = (MonthIndex(aux.self, aux.months) % 12) + 1
             /\ time.day \in {aux.self.day, last_day_of_month(time.year, time.month)}
             /\ time.day <= aux.self.day
             /\ time.day <= last_day_of_month(time.year, time.month)
             /\ time = [aux.self EXCEPT !.year = time.year, !.month = time.month, !.day = time.day]

\* the same in a build whose arithmetic wraps
C15_AddMonthsWrapping ==
    (pc = "months_added" /\ aux.self.month \in 1..12 /\ ~aux.overflow_checks) =>
        IF ~SmallI64(aux.months) \/ MonthIndex(aux.self, aux.months) \div 12 \notin 0..9999
        THEN out = MErr(aux.self, "datetime_function_overflow")
        ELSE IF MonthIndex(aux.self, aux.months) \div 12 = 0
        THEN out = MOk([aux.self EXCEPT !.year = 0, !.month = 0, !.day = 0])
        ELSE /\ out.tag = "Ok"
             /\ time.year = MonthIndex(aux.self, aux.months) \div 12
             /\ time.month = (MonthIndex(aux.self, aux.months) % 12) + 1
             /\ time.day \in {aux.self.day, last_day_of_month(time.year, time.month)}
             /\ time.day <= aux.self.day
             /\ time.day <= last_day_of_month(time.year, time.month)
             /\ time = [aux.self EXCEPT !.year = time.year, !.month = time.month, !.day = time.day]

----------------------------------------------------------------------------
(* the time codec: Time::add_sec_nanos                                     *)
(*                                                                         *)
(* The i64 `secs` is [days, secs] = days * 86400 + secs and the i64        *)
(* `nanos` is [days, secs, nanos] = (days * 86400 + secs) * 10^9 + nanos,  *)
(* with 0 <= secs < 86400 and 0 <= nanos < 10^9: the code compares them    *)
(* and hands them to chrono, which counts in the same units.               *)

Secs(days, secs) == [days |-> days, secs |-> secs]

Nanos(days, secs, nanos) == [days |-> days, secs |-> secs, nanos |-> nanos]

\* MAX_SECS = 10000 * 365 * SECS_PER_DAY, in days
MAX_SECS_DAYS == 3650000

\* (MIN_SECS..=MAX_SECS).contains(&secs)
secs_in_range(secs) ==
    /\ secs.days >= -MAX_SECS_DAYS
    /\ secs.days < MAX_SECS_DAYS \/ (secs.days = MAX_SECS_DAYS /\ secs.secs = 0)

\* the result of add_sec_nanos
AOk(t, warn) == [tag |-> "Ok", val |-> t, err |-> "none", warn |-> warn]

AErr(e, warn) == [tag |-> "Err", val |-> NoTime, err |-> e, warn |-> warn]

\* naive.checked_add_signed(duration): None outside the dates of chrono
checked_add_signed_duration(naive, secs, nanos) ==
    IF \/ naive.days + secs.days + nanos.days < DaysFromCivil(-MAX_CHRONO_YEAR, 1, 1)
       \/ naive.days + secs.days + nanos.days > DaysFromCivil(MAX_CHRONO_YEAR, 12, 31)
    THEN None
    ELSE Some(NaiveNorm(naive.days + secs.days + nanos.days, naive.secs + secs.secs + nanos.secs, naive.micros + nanos.nanos \div 1000))

\* Time::add_sec_nanos: the special handling of the year 0
add_sec_nanos_year0(r) ==
    IF r.tag # "Ok" THEN AErr("incorrect_datetime_value", r.warn)
    ELSE IF r.val.year = 0 THEN AOk([r.val EXCEPT !.month = 0, !.day = 0], r.warn)
    ELSE AOk(r.val, r.warn)

\* Time::add_sec_nanos: the sum of a DateTime<Tz>, then try_from_chrono_datetime
add_sec_nanos_tz(c, t, datetime) ==
    IF datetime = None THEN AErr("datetime_function_overflow", 0)
    ELSE add_sec_nanos_year0(try_from_chrono_datetime(c, naive_local(c.tz, datetime[1]), "Timestamp", fsp(t)))

\* Time::add_sec_nanos: the sum of a NaiveDateTime, then try_from_chrono_datetime
add_sec_nanos_naive(c, t, naive) ==
    IF naive = None THEN AErr("datetime_function_overflow", 0)
    ELSE add_sec_nanos_year0(try_from_chrono_datetime(c, naive[1], get_time_type(t), fsp(t)))

\* Time::add_sec_nanos: after try_into_chrono_datetime or try_into_chrono_naive_datetime
add_sec_nanos_from(c, t, operand, secs, nanos) ==
    IF operand = None THEN AErr("truncated", 0)
    ELSE IF get_time_type(t) = "Timestamp"
    THEN add_sec_nanos_tz(c, t, checked_add_signed_duration(operand[1], secs, nanos))
    ELSE add_sec_nanos_naive(c, t, checked_add_signed_duration(operand[1], secs, nanos))

\* Time::add_sec_nanos
add_sec_nanos(c, t, secs, nanos) ==
    IF ~secs_in_range(secs) THEN AErr("datetime_function_overflow", 0)
    ELSE add_sec_nanos_from(c, t, IF get_time_type(t) = "Timestamp" THEN try_into_chrono_datetime(t, c) ELSE try_into_chrono_naive_datetime(t), secs, nanos)

SecNanosCtxs == { EvalContext(sm, {}, tz) : sm \in {{}, {"INVALID_DATES"}, {"STRICT_TRANS_TABLES", "NO_ZERO_DATE"}, {"INVALID_DATES", "NO_ZERO_DATE"}}, tz \in TzInputs }

\* the operands of tests::test_add_sec_nanos, the ends of the range of
\* years, incomplete dates and timestamps
SecNanosArgs ==
    { TimeArgs(2023, 1, 1, 0, 0, 0, 0, 6, "DateTime"),
      TimeArgs(2023, 12, 31, 23, 59, 59, 0, 6, "DateTime"),
      TimeArgs(2024, 2, 27, 0, 0, 0, 0, 6, "DateTime"),
      TimeArgs(1, 1, 1, 0, 0, 0, 0, 6, "DateTime"),
      TimeArgs(0, 1, 1, 0, 0, 0, 0, 6, "DateTime"),
      TimeArgs(9999, 12, 31, 23, 59, 59, 999999, 6, "DateTime"),
      TimeArgs(2019, 0, 1, 0, 0, 0, 0, 0, "DateTime"),
      TimeArgs(2019, 2, 31, 0, 0, 0, 0, 0, "DateTime"),
      TimeArgs(0, 0, 0, 0, 0, 0, 0, 0, "DateTime"),
      TimeArgs(2023, 1, 1, 0, 0, 0, 0, 0, "Date"),
      TimeArgs(9999, 12, 31, 0, 0, 0, 0, 0, "Date"),
      TimeArgs(2018, 12, 30, 11, 30, 45, 123456, 6, "Timestamp"),
      TimeArgs(2038, 1, 19, 3, 14, 7, 0, 0, "Timestamp"),
      TimeArgs(1970, 1, 1, 8, 0, 0, 0, 3, "Timestamp") }

SecsInputs ==
    { Secs(0, 0), Secs(0, 1), Secs(0, 2), Secs(-1, 86399), Secs(3, 0), Secs(2, 21835), Secs(-1, 0), Secs(-2, 0), Secs(10000, 0),
      Secs(MAX_SECS_DAYS, 0), Secs(MAX_SECS_DAYS, 1), Secs(-MAX_SECS_DAYS, 0), Secs(-MAX_SECS_DAYS - 1, 86399), Secs(20000000, 0) }

NanosInputs ==
    { Nanos(0, 0, 0), Nanos(0, 0, 123000000), Nanos(-1, 86399, 0), Nanos(2, 0, 0), Nanos(1, 21600, 123456000),
      Nanos(0, 0, 1500), Nanos(-1, 86399, 999999999), Nanos(0, 0, 999999999), Nanos(106751, 0, 0) }

InitSecNanos ==
    /\ LockIdle
    /\ ctx \in SecNanosCtxs
    /\ aux \in SecNanosArgs
    /\ time = NoTime
    /\ out = NoOut
    /\ pc = "args"

\* time.add_sec_nanos(ctx, secs, nanos)
AddSecNanos ==
    /\ pc = "valid"
    /\ \E secs \in SecsInputs, nanos \in NanosInputs :
          out' = [ tag |-> "shifted", secs |-> secs, nanos |-> nanos, res |-> add_sec_nanos(ctx, time, secs, nanos) ]
    /\ pc' = "shifted"
    /\ UNCHANGED <<lock, buf, parsed, checked, ctx, time, aux>>

NextSecNanos == New \/ AddSecNanos

SpecSecNanos == InitSecNanos /\ [][NextSecNanos]_vars

\* the operand names a day of the calendar
CalendarDay(t) == t.month \in 1..12 /\ t.day >= 1 /\ t.day <= last_day_of_month(t.year, t.month)

\* the local date and time of the operand shifted by secs and nanos
ShiftedNaive(t, secs, nanos) == NaiveNorm(DaysFromCivil(t.year, t.month, t.day) + secs.days + nanos.days, t.hour * 3600 + t.minute * 60 + t.second + secs.secs + nanos.secs, t.micro + nanos.nanos \div 1000)

\* the shifted value is a DATE or DATETIME of the years 0..=9999, or a
\* Timestamp of the 32-bit epoch
Representable(c, t, n) ==
    IF get_time_type(t) = "Timestamp"
    THEN /\ ~FieldsLt(NaiveFields(checked_add_signed(n, -c.tz, 0)), <<1970, 1, 1, 0, 0, 0, 0>>)
         /\ ~FieldsLt(<<2038, 1, 19, 3, 14, 7, 999999>>, NaiveFields(checked_add_signed(n, -c.tz, 0)))
    ELSE NaiveFields(n)[1] \in 0..9999

\* the fields of a Time of the type of `t` at the shifted value
ShiftedFields(t, n) ==
    IF NaiveFields(n)[1] = 0 THEN <<0, 0, 0>> \o SubSeq(NaiveFields(n), 4, 7)
    ELSE IF get_time_type(t) = "Date" THEN SubSeq(NaiveFields(n), 1, 3) \o <<0, 0, 0, 0>>
    ELSE NaiveFields(n)

\* C16: add_sec_nanos returns an overflow error when |secs| exceeds
\* 10000 * 365 * 86400 and when the shifted value is not representable;
\* otherwise it returns the operand shifted by secs and nanos, of the
\* operand's type and fsp, with month and day 0 when the year is 0.
C16_AddSecNanos ==
    (pc = "shifted" /\ CalendarDay(time)) =>
        IF ~secs_in_range(out.secs) \/ ~Representable(ctx, time, ShiftedNaive(time, out.secs, out.nanos))
        THEN out.res.tag = "Err" /\ out.res.err = "datetime_function_overflow"
        ELSE /\ out.res.tag = "Ok"
             /\ Fields(out.res.val) = ShiftedFields(time, ShiftedNaive(time, out.secs, out.nanos))
             /\ out.res.val.fsp_tt = time.fsp_tt

\* the same with any error, not only the overflow error, when the shifted
\* value is not representable
C16_AddSecNanosAnyError ==
    (pc = "shifted" /\ CalendarDay(time)) =>
        IF ~secs_in_range(out.secs) \/ ~Representable(ctx, time, ShiftedNaive(time, out.secs, out.nanos))
        THEN out.res.tag = "Err"
        ELSE /\ out.res.tag = "Ok"
             /\ Fields(out.res.val) = ShiftedFields(time, ShiftedNaive(time, out.secs, out.nanos))
             /\ out.res.val.fsp_tt = time.fsp_tt

\* the same in the contexts without INVALID_DATES
C16_AddSecNanosStrictDates ==
    (pc = "shifted" /\ CalendarDay(time) /\ "INVALID_DATES" \notin ctx.sql_mode) =>
        IF ~secs_in_range(out.secs) \/ ~Representable(ctx, time, ShiftedNaive(time, out.secs, out.nanos))
        THEN out.res.tag = "Err"
        ELSE /\ out.res.tag = "Ok"
             /\ Fields(out.res.val) = ShiftedFields(time, ShiftedNaive(time, out.secs, out.nanos))
             /\ out.res.val.fsp_tt = time.fsp_tt

----------------------------------------------------------------------------
(* the time codec: Time::round_frac *)

\* Time::round_frac: zero on a carry that the date cannot take, from_slice otherwise
time_round_frac_carried(c, t, f, rounded) ==
    IF rounded = None THEN TimeNew(c, TimeArgsZero(f, get_time_type(t)))
    ELSE from_slice(c, rounded[1], get_time_type(t), f)

\* Time::round_frac: slice[6] = frac and round_components on a carry
time_round_frac_slice(c, t, f, carry, slice) ==
    time_round_frac_carried(c, t, f, IF carry THEN round_components(slice) ELSE Some(slice))

\* Time::round_frac: after round_frac(self.micro(), fsp), a (carry, frac)
time_round_frac_micro(c, t, f, cf) == time_round_frac_slice(c, t, f, cf[1], [Fields(t) EXCEPT ![7] = cf[2]])

\* Time::round_frac: after check_fsp(fsp)?
time_round_frac_fsp(c, t, g) ==
    IF g = None THEN TErr(0)
    ELSE IF g[1] > fsp(t) THEN TOk(set_fsp(t, g[1]), 0)
    ELSE time_round_frac_micro(c, t, g[1], round_frac(t.micro, g[1]))

\* Time::round_frac
time_round_frac(c, t, f) ==
    IF get_time_type(t) = "Date" \/ is_zero(t) THEN TOk(t, 0)
    ELSE time_round_frac_fsp(c, t, check_fsp(f))

RoundCtxs == { EvalContext(sm, {}, tz) : sm \in {{}, {"INVALID_DATES"}, {"NO_ZERO_DATE"}}, tz \in {TZ_UTC, TZ_EAST} }

\* the values of tests::test_round_frac, values whose fraction is finer than
\* their fsp, the ends of the ranges, the zero value and a date
RoundArgs ==
    { TimeArgs(2012, 12, 31, h, 59, 59, u, f, tt) : h \in {11, 23}, u \in {0, 4, 123345, 123456, 499999, 500000, 876545, 999999}, f \in {0, 3, 5, 6}, tt \in {"DateTime", "Timestamp"} }
    \cup { TimeArgs(2012, 1, 0, 23, 59, 59, 999999, 6, "DateTime"),
           TimeArgs(2012, 4, 31, 23, 59, 59, 999999, 6, "DateTime"),
           TimeArgs(2012, 0, 0, 11, 30, 45, 999999, 6, "DateTime"),
           TimeArgs(2012, 2, 29, 23, 59, 59, 999999, 6, "DateTime"),
           TimeArgs(9999, 12, 31, 23, 59, 59, 999999, 6, "DateTime"),
           TimeArgs(2038, 1, 19, 3, 14, 7, 999999, 6, "Timestamp"),
           TimeArgs(0, 0, 0, 0, 0, 0, 0, 6, "DateTime"),
           TimeArgs(2012, 12, 31, 0, 0, 0, 0, 0, "Date") }

InitRound ==
    /\ LockIdle
    /\ ctx \in RoundCtxs
    /\ aux \in RoundArgs
    /\ time = NoTime
    /\ out = NoOut
    /\ pc = "args"

\* time.round_frac(ctx, fsp)
RoundFrac ==
    /\ pc = "valid"
    /\ \E f \in 0..MAX_FSP :
          out' = [tag |-> "rounded", fsp |-> f, res |-> time_round_frac(ctx, time, f), again |-> NoOut]
    /\ pc' = "rounded"
    /\ UNCHANGED <<lock, buf, parsed, checked, ctx, time, aux>>

\* rounded.round_frac(ctx, fsp), of the result of the first call
RoundFracAgain ==
    /\ pc = "rounded"
    /\ out.res.tag = "Ok"
    /\ out' = [out EXCEPT !.again = time_round_frac(ctx, out.res.val, out.fsp)]
    /\ pc' = "rounded_again"
    /\ UNCHANGED <<lock, buf, parsed, checked, ctx, time, aux>>

NextRound == New \/ RoundFrac \/ RoundFracAgain

SpecRound == InitRound /\ [][NextRound]_vars

\* C17: round_frac is idempotent: when round_frac(t, f) succeeds for a
\* validated DateTime or Timestamp t, round_frac(round_frac(t, f), f)
\* succeeds and equals it.
C17_RoundFracIdempotent ==
    (pc = "rounded_again" /\ get_time_type(time) # "Date") =>
        /\ out.again.tag = "Ok"
        /\ TimeEq(out.again.val, out.res.val)

\* the number of digits of the fraction of `t` is at most its fsp
FractionFitsFsp(t) == t.micro % TenPow(6 - fsp(t)) = 0

\* the same for the values whose fraction has no more digits than their fsp
C17_RoundFracIdempotentFitting ==
    (pc = "rounded_again" /\ get_time_type(time) # "Date" /\ FractionFitsFsp(time)) =>
        /\ out.again.tag = "Ok"
        /\ out.again.val = out.res.val

----------------------------------------------------------------------------
(* identity of a Time: impl PartialEq, Ord and Hash *)

FSP_TT_BITS == 16

\* Time::set_fsp_tt, of a u8
set_fsp_tt(t, v) == [t EXCEPT !.fsp_tt = v % FSP_TT_BITS]

\* self.0, the u64 under the bitfield, as four 16-bit limbs: year in bits
\* 63..50, month 49..46, day 45..41, hour 40..36, minute 35..30, second
\* 29..24, micro 23..4, fsp_tt 3..0
time_bits(t) ==
    << t.year * 4 + t.month \div 4,
       (t.month % 4) * 16384 + t.day * 512 + t.hour * 16 + t.minute \div 4,
       (t.minute % 4) * 16384 + t.second * 256 + t.micro \div 4096,
       (t.micro % 4096) * 16 + t.fsp_tt >>

\* a.0.cmp(&b.0) of two u64
u64_cmp(x, y) ==
    IF U64Lt(x, y) THEN "Less"
    ELSE IF x = y THEN "Equal"
    ELSE "Greater"

\* impl Ord for Time without the two set_fsp_tt(0)
time_cmp_fsp_tt(a, b) == u64_cmp(time_bits(a), time_bits(b))

\* impl PartialEq for Time: fn eq
time_eq(a, b) == time_bits(set_fsp_tt(a, 0)) = time_bits(set_fsp_tt(b, 0))

\* impl Ord for Time: fn cmp
time_cmp(a, b) == u64_cmp(time_bits(set_fsp_tt(a, 0)), time_bits(set_fsp_tt(b, 0)))

\* impl Hash for Time: fn hash, as the u64 written to the hasher
time_hash(a) == time_bits(set_fsp_tt(a, 0))

\* every fsp_tt a constructor gives: Date, and DateTime and Timestamp of
\* fsp 0, 3 and 6
IdentityKinds ==
    {<<0, "Date">>} \cup ({0, 3, 6} \X {"DateTime", "Timestamp"})

IdentityArgs ==
    { TimeArgs(y, m, d, h, mi, s, u, k[1], k[2]) :
        y \in {0, 2019}, m \in {1, 12}, d \in {1, 31}, h \in {0, 23},
        mi \in {0, 59}, s \in {0, 59}, u \in {0, 999999}, k \in IdentityKinds }

IdentityOtherArgs ==
    { TimeArgs(2019, m, d, h, mi, 59, u, k[1], k[2]) :
        m \in {1, 12}, d \in {1, 31}, h \in {0, 23}, mi \in {0, 59},
        u \in {0, 4095, 4096, 999999}, k \in IdentityKinds }

InitIdentity ==
    /\ LockIdle
    /\ ctx = DefaultCtx
    /\ aux = NoAux
    /\ time \in {unchecked_new(a) : a \in IdentityArgs}
    /\ out = NoOut
    /\ pc = "valid"

\* time == other, time.cmp(&other) and the hashes of both
Identify ==
    /\ pc = "valid"
    /\ \E b \in IdentityOtherArgs :
          /\ aux' = unchecked_new(b)
          /\ out' = [ tag |-> "identity",
                      eq |-> time_eq(time, aux'),
                      ord |-> time_cmp(time, aux'),
                      hash_a |-> time_hash(time),
                      hash_b |-> time_hash(aux') ]
    /\ pc' = "identified"
    /\ UNCHANGED <<lock, buf, parsed, checked, ctx, time>>

NextIdentity == Identify

SpecIdentity == InitIdentity /\ [][NextIdentity]_vars

\* the lexicographic order of (year, month, day, hour, minute, second, micro)
LexOrder(a, b) ==
    IF Fields(a) = Fields(b) THEN "Equal"
    ELSE IF FieldsLt(Fields(a), Fields(b)) THEN "Less"
    ELSE "Greater"

\* C18: two Times with the same year, month, day, hour, minute, second and
\* micro are equal, compare Equal and hash alike whatever their fsp and time
\* type; two Times that differ in a field are unequal and ordered by the
\* lexicographic order of (year, month, day, hour, minute, second, micro)
C18_IdentityIgnoresFspTt ==
    pc = "identified" =>
        /\ out.eq = (Fields(time) = Fields(aux))
        /\ out.ord = LexOrder(time, aux)
        /\ (Fields(time) = Fields(aux) => out.hash_a = out.hash_b)

\* a DateTime of fsp 6 and a Date with the same fields, found equal
C18_Witness ==
    /\ pc = "identified"
    /\ Fields(time) = Fields(aux)
    /\ time.fsp_tt = 12
    /\ aux.fsp_tt = FSP_TT_DATE
    /\ out.eq
    /\ out.ord = "Equal"
    /\ out.hash_a = out.hash_b

----------------------------------------------------------------------------
(* STR_TO_DATE: mod date_format_parser, a &str as its sequence of chars *)

CONST_FOR_AM == 1

CONST_FOR_PM == 2

DigitChars == <<"0", "1", "2", "3", "4", "5", "6", "7", "8", "9">>

\* char::is_ascii_digit
is_ascii_digit(ch) == \E n \in 1..10 : DigitChars[n] = ch

\* char::to_digit(10) of an ASCII digit
to_digit(ch) == (CHOOSE n \in 1..10 : DigitChars[n] = ch) - 1

\* &input[n..]
str_from(input, n) == SubSeq(input, n + 1, Len(input))

\* str::trim_start and str::trim_end of a string whose only white space is " "
RECURSIVE trim_start(_)
trim_start(input) ==
    IF input # <<>> /\ Head(input) = " " THEN trim_start(Tail(input)) ELSE input

RECURSIVE trim_end(_)
trim_end(input) ==
    IF input # <<>> /\ input[Len(input)] = " "
    THEN trim_end(SubSeq(input, 1, Len(input) - 1))
    ELSE input

\* str::trim
str_trim(input) == trim_end(trim_start(input))

\* str::to_lowercase and eq_ignore_ascii_case on the letters of AM and PM
to_lowercase(ch) ==
    CASE ch = "A" -> "a"
      [] ch = "P" -> "p"
      [] ch = "M" -> "m"
      [] OTHER -> ch

\* date_format_parser::has_case_insensitive_prefix, of a two-letter prefix
has_case_insensitive_prefix(input, prefix) ==
    /\ Len(input) >= Len(prefix)
    /\ \A i \in 1..Len(prefix) : to_lowercase(input[i]) = to_lowercase(prefix[i])

\* date_format_parser::parse_n_digits: the loop over input.chars()
RECURSIVE parse_n_digits_from(_, _, _, _)
parse_n_digits_from(input, limit, num, step) ==
    IF input # <<>> /\ step < limit /\ is_ascii_digit(Head(input))
    THEN parse_n_digits_from(Tail(input), limit, num * 10 + to_digit(Head(input)), step + 1)
    ELSE [num |-> num, step |-> step]

\* date_format_parser::parse_n_digits
parse_n_digits(input, limit) ==
    IF limit <= 0 THEN [num |-> 0, step |-> 0]
    ELSE parse_n_digits_from(input, limit, 0, 0)

\* Time::set_hour, Time::set_minute and Time::set_second, of a u32
set_hour(t, hour) == [t EXCEPT !.hour = hour % HOUR_BITS]

set_minute(t, minute) == [t EXCEPT !.minute = minute % MINUTE_BITS]

set_second(t, second) == [t EXCEPT !.second = second % SECOND_BITS]

\* HashMap::insert
map_insert(map, key, value) ==
    [k \in DOMAIN map \cup {key} |-> IF k = key THEN value ELSE map[k]]

\* HashMap::contains_key
contains_key(map, key) == key \in DOMAIN map

\* HashMap::new()
NoMap == [k \in {} |-> 0]

\* what a DateFormatParser leaves: the time, the rest of the input, the map
\* and whether it matched
Parsed(t, input, map, succ) == [time |-> t, input |-> input, map |-> map, succ |-> succ]

\* date_format_parser::hour_12_numeric
hour_12_numeric_digits(t, input, map, p) ==
    IF p.step = 0 \/ p.num > 12 \/ p.num = 0 THEN Parsed(t, input, map, FALSE)
    ELSE Parsed(set_hour(t, p.num), str_from(input, p.step), map_insert(map, "%h", p.num), TRUE)

hour_12_numeric(t, input, map) ==
    hour_12_numeric_digits(t, input, map, parse_n_digits(input, 2))

\* date_format_parser::hour_24_numeric
hour_24_numeric_digits(t, input, map, p) ==
    IF p.step = 0 \/ p.num > 23 THEN Parsed(t, input, map, FALSE)
    ELSE Parsed(set_hour(t, p.num), str_from(input, p.step), map_insert(map, "%H", p.num), TRUE)

hour_24_numeric(t, input, map) ==
    hour_24_numeric_digits(t, input, map, parse_n_digits(input, 2))

\* date_format_parser::minute_numeric
minute_numeric_digits(t, input, map, p) ==
    IF p.step = 0 \/ p.num >= 60 THEN Parsed(t, input, map, FALSE)
    ELSE Parsed(set_minute(t, p.num), str_from(input, p.step), map, TRUE)

minute_numeric(t, input, map) ==
    minute_numeric_digits(t, input, map, parse_n_digits(input, 2))

\* date_format_parser::is_am_or_pm
is_am_or_pm(t, input, map) ==
    IF Len(input) < 2 THEN Parsed(t, input, map, FALSE)
    ELSE IF has_case_insensitive_prefix(input, <<"a", "m">>)
    THEN Parsed(t, str_from(input, 2), map_insert(map, "%p", CONST_FOR_AM), TRUE)
    ELSE IF has_case_insensitive_prefix(input, <<"p", "m">>)
    THEN Parsed(t, str_from(input, 2), map_insert(map, "%p", CONST_FOR_PM), TRUE)
    ELSE Parsed(t, input, map, FALSE)

\* date_format_parser::parse_sep, after the trim of its input
parse_sep_trimmed(input) ==
    IF input = <<>> THEN [input |-> input, state |-> "ParseStateEndOfLine"]
    ELSE IF Head(input) # ":" THEN [input |-> input, state |-> "ParseStateFail"]
    ELSE IF str_trim(Tail(input)) = <<>>
    THEN [input |-> <<>>, state |-> "ParseStateEndOfLine"]
    ELSE [input |-> str_trim(Tail(input)), state |-> "ParseStateNormal"]

\* date_format_parser::parse_sep
parse_sep(input) == parse_sep_trimmed(str_trim(input))

\* what the closure try_parse leaves: the time, the rest and the ParseState
Tried(t, input, state) == [time |-> t, input |-> input, state |-> state]

\* try_parse of time_12_hour and time_24_hour: the seconds
try_parse_second_digits(t, input, p) ==
    IF p.step = 0 \/ p.num > 59 THEN Tried(t, input, "ParseStateFail")
    ELSE Tried(set_second(t, p.num), str_from(input, p.step), "ParseStateNormal")

try_parse_second(t, sep) ==
    IF sep.state # "ParseStateNormal" THEN Tried(t, sep.input, sep.state)
    ELSE try_parse_second_digits(t, sep.input, parse_n_digits(sep.input, 2))

\* try_parse of time_12_hour and time_24_hour: the minutes
try_parse_minute_digits(t, input, p) ==
    IF p.step = 0 \/ p.num > 59 THEN Tried(t, input, "ParseStateFail")
    ELSE try_parse_second(set_minute(t, p.num), parse_sep(str_from(input, p.step)))

try_parse_minute(t, sep) ==
    IF sep.state # "ParseStateNormal" THEN Tried(t, sep.input, sep.state)
    ELSE try_parse_minute_digits(t, sep.input, parse_n_digits(sep.input, 2))

\* the end of time_12_hour and time_24_hour: a failed try_parse gives back
\* the input, the time as try_parse left it
time_hour_tried(input, map, tried) ==
    IF tried.state = "ParseStateFail" THEN Parsed(tried.time, input, map, FALSE)
    ELSE Parsed(tried.time, tried.input, map, TRUE)

\* try_parse of time_24_hour
time_24_hour_digits(t, input, p) ==
    IF p.step = 0 \/ p.num > 23 THEN Tried(t, input, "ParseStateFail")
    ELSE try_parse_minute(set_hour(t, p.num), parse_sep(str_from(input, p.step)))

\* date_format_parser::time_24_hour
time_24_hour(t, input, map) ==
    time_hour_tried(input, map, time_24_hour_digits(t, input, parse_n_digits(input, 2)))

\* try_parse of time_12_hour: the AM or PM after the seconds
time_12_hour_suffix(t, hour, input) ==
    IF Len(input) = 0 THEN Tried(t, input, "ParseStateEndOfLine")
    ELSE IF Len(input) = 1 THEN Tried(t, input, "ParseStateFail")
    ELSE IF has_case_insensitive_prefix(input, <<"A", "M">>)
    THEN Tried(set_hour(t, hour), str_from(input, 2), "ParseStateNormal")
    ELSE IF has_case_insensitive_prefix(input, <<"P", "M">>)
    THEN Tried(set_hour(t, hour + 12), str_from(input, 2), "ParseStateNormal")
    ELSE Tried(t, input, "ParseStateFail")

time_12_hour_seconds(hour, tried) ==
    IF tried.state # "ParseStateNormal" THEN tried
    ELSE time_12_hour_suffix(tried.time, hour, str_trim(tried.input))

\* try_parse of time_12_hour: hour 12 is hour 0
time_12_hour_from(t, hour, rest) ==
    time_12_hour_seconds(hour, try_parse_minute(set_hour(t, hour), parse_sep(rest)))

time_12_hour_digits(t, input, p) ==
    IF p.step = 0 \/ p.num > 12 \/ p.num = 0 THEN Tried(t, input, "ParseStateFail")
    ELSE time_12_hour_from(t, IF p.num = 12 THEN 0 ELSE p.num, str_from(input, p.step))

\* date_format_parser::time_12_hour
time_12_hour(t, input, map) ==
    time_hour_tried(input, map, time_12_hour_digits(t, input, parse_n_digits(input, 2)))

\* the String of a format token: a two-char directive or one literal char
token_string(token) ==
    IF Len(token) = 1 THEN token[1]
    ELSE CASE token[2] = "h" -> "%h"
           [] token[2] = "H" -> "%H"
           [] token[2] = "I" -> "%I"
           [] token[2] = "i" -> "%i"
           [] token[2] = "k" -> "%k"
           [] token[2] = "l" -> "%l"
           [] token[2] = "p" -> "%p"
           [] token[2] = "r" -> "%r"
           [] token[2] = "T" -> "%T"
           [] OTHER -> "%"

\* date_format_parser::date_format_parser_mapper, on the directives of the
\* hour, the minute and AM/PM: the name of the parser, or None
date_format_parser_mapper(token) ==
    CASE token_string(token) \in {"%h", "%I", "%l"} -> Some("hour_12_numeric")
      [] token_string(token) \in {"%H", "%k"} -> Some("hour_24_numeric")
      [] token_string(token) = "%i" -> Some("minute_numeric")
      [] token_string(token) = "%p" -> Some("is_am_or_pm")
      [] token_string(token) = "%r" -> Some("time_12_hour")
      [] token_string(token) = "%T" -> Some("time_24_hour")
      [] OTHER -> None

\* parse(time, date, ctx) of the parser the mapper gave
date_format_parse(parser, t, date, map) ==
    CASE parser = "hour_12_numeric" -> hour_12_numeric(t, date, map)
      [] parser = "hour_24_numeric" -> hour_24_numeric(t, date, map)
      [] parser = "minute_numeric" -> minute_numeric(t, date, map)
      [] parser = "is_am_or_pm" -> is_am_or_pm(t, date, map)
      [] parser = "time_12_hour" -> time_12_hour(t, date, map)
      [] parser = "time_24_hour" -> time_24_hour(t, date, map)

\* str::starts_with
starts_with(input, prefix) ==
    Len(input) >= Len(prefix) /\ SubSeq(input, 1, Len(prefix)) = prefix

\* date_format_parser::get_format_token
get_format_token(format) ==
    IF Len(format) = 0 THEN [token |-> <<>>, remain |-> <<>>, succ |-> TRUE]
    ELSE IF Len(format) = 1
    THEN IF format[1] = "%" THEN [token |-> <<>>, remain |-> <<>>, succ |-> FALSE]
         ELSE [token |-> <<>>, remain |-> format, succ |-> TRUE]
    ELSE IF format[1] = "%"
    THEN [token |-> SubSeq(format, 1, 2), remain |-> str_from(format, 2), succ |-> TRUE]
    ELSE [token |-> SubSeq(format, 1, 1), remain |-> str_from(format, 1), succ |-> TRUE]

\* date_format_parser::match_date_with_token
match_date_with_parser(t, date, token, map, parser) ==
    IF parser # None THEN date_format_parse(parser[1], t, date, map)
    ELSE IF starts_with(date, token) THEN Parsed(t, str_from(date, Len(token)), map, TRUE)
    ELSE Parsed(t, date, map, FALSE)

match_date_with_token(t, date, token, map) ==
    match_date_with_parser(t, date, token, map, date_format_parser_mapper(token))

\* (succ, warn) of str_to_date_impl, with the time and the map it leaves
Impl(succ, warn, t, map) == [succ |-> succ, warn |-> warn, time |-> t, map |-> map]

RECURSIVE str_to_date_impl(_, _, _, _)

\* date_format_parser::str_to_date_impl: after match_date_with_token
str_to_date_impl_matched(format_remain, m) ==
    IF ~m.succ THEN Impl(FALSE, FALSE, m.time, m.map)
    ELSE str_to_date_impl(m.time, m.input, format_remain, m.map)

\* date_format_parser::str_to_date_impl: after the two trims
str_to_date_impl_token(t, date, map, tok) ==
    IF ~tok.succ THEN Impl(FALSE, FALSE, t, map)
    ELSE IF tok.token = <<>> THEN Impl(TRUE, date # <<>>, t, map)
    ELSE IF date = <<>> THEN Impl(TRUE, FALSE, t, map_insert(map, token_string(tok.token), 0))
    ELSE str_to_date_impl_matched(tok.remain, match_date_with_token(t, date, tok.token, map))

\* date_format_parser::str_to_date_impl
str_to_date_impl(t, date, format, map) ==
    str_to_date_impl_token(t, str_trim(date), map, get_format_token(str_trim(format)))

\* Result<()> of mysql_time_fix and the time it leaves
Fixed(is_ok, t) == [ok |-> is_ok, time |-> t]

\* date_format_parser::mysql_time_fix: the branch of a map with "%p"
mysql_time_fix_am_or_pm(t, am_or_pm) ==
    IF t.hour = 12
    THEN CASE am_or_pm = CONST_FOR_AM -> Fixed(TRUE, set_hour(t, 0))
           [] am_or_pm = CONST_FOR_PM -> Fixed(TRUE, set_hour(t, 12))
           [] OTHER -> Fixed(TRUE, t)
    ELSE IF am_or_pm = CONST_FOR_PM THEN Fixed(TRUE, set_hour(t, t.hour + 12))
    ELSE Fixed(TRUE, t)

\* date_format_parser::mysql_time_fix
mysql_time_fix(t, map) ==
    IF contains_key(map, "%p")
    THEN IF contains_key(map, "%H") \/ t.hour = 0 THEN Fixed(FALSE, t)
         ELSE mysql_time_fix_am_or_pm(t, map["%p"])
    ELSE IF contains_key(map, "%h")
    THEN IF map["%h"] = 12 THEN Fixed(TRUE, set_hour(t, 0)) ELSE Fixed(TRUE, t)
    ELSE Fixed(TRUE, t)

\* Time(0)
Time0 ==
    [ year |-> 0, month |-> 0, day |-> 0, hour |-> 0, minute |-> 0,
      second |-> 0, micro |-> 0, fsp_tt |-> 0 ]

\* (bool, Time) of str_to_date, with the warnings appended and the map
StrToDate(succ, t, warn, map) == [succ |-> succ, time |-> t, warn |-> warn, map |-> map]

\* time_args of str_to_date
str_to_date_args(t) ==
    TimeArgs(t.year, t.month, t.day, t.hour, t.minute, t.second, t.micro, fsp(t), get_time_type(t))

\* date_format_parser::str_to_date: time_args.check(eval_ctx) and the warning
str_to_date_checked(t, warn, map, checked_args) ==
    IF checked_args.val = None THEN StrToDate(FALSE, t, checked_args.warn, map)
    ELSE StrToDate(TRUE, t, checked_args.warn + (IF warn THEN 1 ELSE 0), map)

\* date_format_parser::str_to_date: set_time_type(TimeType::DateTime) of a
\* Time that is a DateTime
str_to_date_typed(c, t, warn, map) ==
    str_to_date_checked(t, warn, map, check(c, str_to_date_args(t)))

\* date_format_parser::str_to_date: after mysql_time_fix
str_to_date_fixed(c, warn, map, fixed) ==
    IF ~fixed.ok THEN StrToDate(FALSE, fixed.time, 0, map)
    ELSE str_to_date_typed(c, set_tt(fixed.time, "DateTime"), warn, map)

\* date_format_parser::str_to_date: after str_to_date_impl
str_to_date_parsed(c, r) ==
    IF ~r.succ THEN StrToDate(FALSE, r.time, 0, r.map)
    ELSE str_to_date_fixed(c, r.warn, r.map, mysql_time_fix(r.time, r.map))

\* date_format_parser::str_to_date
str_to_date(c, date, format) ==
    str_to_date_parsed(c, str_to_date_impl(Time0, date, format, NoMap))

\* Time::parse_from_string_with_format
parse_from_string_with_format(c, date, format) == str_to_date(c, date, format)

\* two decimal digits, and hh:mm:ss
Digits2(n) == <<DigitChars[(n \div 10) + 1], DigitChars[(n % 10) + 1]>>

Hms(h, m, s) == Digits2(h) \o <<":">> \o Digits2(m) \o <<":">> \o Digits2(s)

\* a piece of a date string: its text and the hour (or the AM/PM constant)
\* it spells
Piece(text, num) == [text |-> text, num |-> num]

NumberPieces ==
    {Piece(Digits2(n), n) : n \in {0, 1, 9, 11, 12, 13, 23, 24}} \cup {Piece(<<"7">>, 7)}

TimePieces ==
    { Piece(Hms(0, 0, 0), 0), Piece(Hms(11, 0, 0), 11), Piece(Hms(12, 34, 56), 12),
      Piece(Hms(13, 0, 0), 13), Piece(Hms(23, 59, 59), 23),
      Piece(Hms(11, 0, 0) \o <<" ", "P", "M">>, 11),
      Piece(Hms(12, 0, 0) \o <<" ", "A", "M">>, 12) }

MarkerPieces ==
    { Piece(<<"A", "M">>, CONST_FOR_AM), Piece(<<"P", "M">>, CONST_FOR_PM),
      Piece(<<"a", "M">>, CONST_FOR_AM), Piece(<<"p", "m">>, CONST_FOR_PM),
      Piece(<<"x", "m">>, 0) }

StrPieces == NumberPieces \cup TimePieces \cup MarkerPieces

Hour12Directives == {<<"%", "h">>, <<"%", "I">>, <<"%", "l">>}

Hour24Directives == {<<"%", "H">>, <<"%", "k">>, <<"%", "T">>}

HourDirectives == Hour12Directives \cup Hour24Directives \cup {<<"%", "r">>}

StrDirectives == HourDirectives \cup {<<"%", "p">>, <<"%", "i">>}

\* the hours and markers of the formats of three directives
HourPieces == {p \in NumberPieces \cup TimePieces : p.text \in {Digits2(11), Digits2(12), Digits2(13), Hms(11, 0, 0), Hms(13, 0, 0)}}

AmPmPieces == {p \in MarkerPieces : p.text \in {<<"A", "M">>, <<"P", "M">>}}

\* the directives of a format and the pieces of a date, in order
StrShapes ==
    {<<d, q>> : d \in {<<x>> : x \in StrDirectives}, q \in {<<x>> : x \in StrPieces}}
    \cup {<<d, q>> : d \in StrDirectives \X StrDirectives, q \in StrPieces \X StrPieces}
    \cup {<<d, q>> : d \in HourDirectives \X HourDirectives \X {<<"%", "p">>},
                     q \in HourPieces \X HourPieces \X AmPmPieces}
    \cup {<<d, q>> : d \in HourDirectives \X {<<"%", "p">>} \X HourDirectives,
                     q \in HourPieces \X AmPmPieces \X HourPieces}
    \cup {<<d, q>> : d \in HourDirectives \X {<<"%", "i">>} \X {<<"%", "p">>},
                     q \in HourPieces \X {Piece(Digits2(9), 9)} \X AmPmPieces}

\* the texts joined by one space
RECURSIVE JoinTexts(_)
JoinTexts(texts) ==
    IF Len(texts) = 0 THEN <<>>
    ELSE IF Len(texts) = 1 THEN texts[1]
    ELSE texts[1] \o <<" ">> \o JoinTexts(Tail(texts))

StrArgs(d, q) ==
    [ directives |-> d, pieces |-> q,
      date |-> JoinTexts([i \in DOMAIN q |-> q[i].text]),
      format |-> JoinTexts(d) ]

StrCtxs == {DefaultCtx, EvalContext({"INVALID_DATES"}, {}, TZ_UTC)}

InitStrToDate ==
    /\ LockIdle
    /\ ctx \in StrCtxs
    /\ aux \in {StrArgs(x[1], x[2]) : x \in StrShapes}
    /\ time = NoTime
    /\ out = NoOut
    /\ pc = "format"

\* Time::parse_from_string_with_format(ctx, date, format)
ParseFromStringWithFormat ==
    /\ pc = "format"
    /\ out' = parse_from_string_with_format(ctx, aux.date, aux.format)
    /\ time' = out'.time
    /\ pc' = "converted"
    /\ UNCHANGED <<lock, buf, parsed, checked, ctx, aux>>

NextStrToDate == ParseFromStringWithFormat

SpecStrToDate == InitStrToDate /\ [][NextStrToDate]_vars

\* the format matched %p against an AM or a PM
MatchedAmPm ==
    /\ pc = "converted"
    /\ contains_key(out.map, "%p")
    /\ out.map["%p"] \in {CONST_FOR_AM, CONST_FOR_PM}

\* the places of the format that supply an hour
HourPlaces == {i \in DOMAIN aux.directives : aux.directives[i] \in HourDirectives}

\* the hour of a 12-hour clock with its AM or PM, on the 24-hour clock
Hour24(hour, am_or_pm) ==
    IF hour = 12 THEN (IF am_or_pm = CONST_FOR_AM THEN 0 ELSE 12)
    ELSE IF am_or_pm = CONST_FOR_PM THEN hour + 12
    ELSE hour

\* the one hour of the format comes from %h, %I or %l
Hour12Only ==
    /\ Cardinality(HourPlaces) = 1
    /\ \A i \in HourPlaces : aux.directives[i] \in Hour12Directives

\* C19: when the format matches %p, a call whose hour does not come from a
\* 12-hour directive (%h, %I, %l) fails; with the hour of %h, %I or %l the
\* resulting hour is 0 for 12 AM, 12 for 12 PM, the hour plus 12 for any other
\* PM and the hour itself for any other AM, hence in 0..=23
C19_AmPmHour ==
    MatchedAmPm =>
        /\ (\A i \in HourPlaces : aux.directives[i] \in Hour24Directives) => ~out.succ
        /\ (out.succ /\ Hour12Only) =>
               /\ \A i \in HourPlaces : out.time.hour = Hour24(aux.pieces[i].num, out.map["%p"])
               /\ out.time.hour \in 0..23

\* C19 for the formats without %T: the 24-hour sources are %H and %k
C19_AmPmHourNumeric ==
    (MatchedAmPm /\ \A i \in DOMAIN aux.directives : aux.directives[i] # <<"%", "T">>) =>
        /\ (\A i \in HourPlaces : aux.directives[i] \in Hour24Directives) => ~out.succ
        /\ (out.succ /\ Hour12Only) =>
               /\ \A i \in HourPlaces : out.time.hour = Hour24(aux.pieces[i].num, out.map["%p"])
               /\ out.time.hour \in 0..23

----------------------------------------------------------------------------
(* JSON_OBJECT: json_object, a String as its sequence of bytes *)

\* Datum::Null, Datum::I64 and Datum::Bytes
DatumNull == [tag |-> "Null"]

DatumI64(n) == [tag |-> "I64", val |-> n]

DatumBytes(b) == [tag |-> "Bytes", val |-> b]

\* the decimal digits of a non-negative i64, in ASCII
RECURSIVE decimal_bytes(_)
decimal_bytes(n) ==
    IF n < 10 THEN <<48 + n>> ELSE decimal_bytes(n \div 10) \o <<48 + (n % 10)>>

\* Datum::into_string: the decimal text of an integer, the bytes of a string
into_string(elem) ==
    IF elem.tag = "I64"
    THEN IF elem.val < 0 THEN <<45>> \o decimal_bytes(-elem.val) ELSE decimal_bytes(elem.val)
    ELSE elem.val

\* Datum::into_json: the JSON value of the datum
into_json(elem) ==
    CASE elem.tag = "Null" -> [type |-> "Literal", val |-> "null"]
      [] elem.tag = "I64" -> [type |-> "I64", val |-> elem.val]
      [] elem.tag = "Bytes" -> [type |-> "String", val |-> elem.val]

\* tikv_util::is_even
is_even(n) == n % 2 = 0

\* String::cmp, the order of the bytes: a < b
RECURSIVE string_lt(_, _)
string_lt(a, b) ==
    IF b = <<>> THEN FALSE
    ELSE IF a = <<>> THEN TRUE
    ELSE IF Head(a) # Head(b) THEN Head(a) < Head(b)
    ELSE string_lt(Tail(a), Tail(b))

\* BTreeMap<String, Json> as its entries in the order of the keys
\* BTreeMap::insert: a key already there gets the new value
RECURSIVE btree_insert(_, _, _)
btree_insert(map, key, val) ==
    IF map = <<>> THEN <<[key |-> key, val |-> val]>>
    ELSE IF Head(map).key = key THEN <<[key |-> key, val |-> val]>> \o Tail(map)
    ELSE IF string_lt(key, Head(map).key) THEN <<[key |-> key, val |-> val]>> \o map
    ELSE <<Head(map)>> \o btree_insert(Tail(map), key, val)

\* the order of the keys of a binary JSON object: the shorter key first,
\* keys of one length in the order of their bytes
object_key_lt(a, b) ==
    Len(a) < Len(b) \/ (Len(a) = Len(b) /\ string_lt(a, b))

\* one entry put at its place among the entries of an object
RECURSIVE object_insert(_, _)
object_insert(entries, e) ==
    IF entries = <<>> THEN <<e>>
    ELSE IF object_key_lt(e.key, Head(entries).key) THEN <<e>> \o entries
    ELSE <<Head(entries)>> \o object_insert(Tail(entries), e)

\* JsonEncoder::write_json_obj: the key entries of the object written
RECURSIVE write_json_obj(_)
write_json_obj(map) ==
    IF map = <<>> THEN <<>>
    ELSE object_insert(write_json_obj(Tail(map)), Head(map))

\* Result<Json> of json_object
JOk(entries) == [tag |-> "Ok", entries |-> entries, err |-> "none"]

JErr(e) == [tag |-> "Err", entries |-> <<>>, err |-> e]

\* Json::from_object
from_object(map) == JOk(write_json_obj(map))

\* json_object: the loop over kvs
RECURSIVE json_object_loop(_, _, _)
json_object_loop(kvs, map, key) ==
    IF kvs = <<>> THEN from_object(map)
    ELSE IF key = None
    THEN IF Head(kvs) = DatumNull THEN JErr("null_member_name")
         ELSE json_object_loop(Tail(kvs), map, Some(into_string(Head(kvs))))
    ELSE json_object_loop(Tail(kvs), btree_insert(map, key[1], into_json(Head(kvs))), None)

\* json_object without the check of the parameter count
json_object_any_count(kvs) == json_object_loop(kvs, <<>>, None)

\* json_object
json_object(kvs) ==
    IF ~is_even(Len(kvs)) THEN JErr("parameter_count")
    ELSE json_object_loop(kvs, <<>>, None)

\* the longest argument list
MaxPairs == 3

\* NULL, 1, 2, 10, "1", "b", "aa" and "asd"
KeyDatums ==
    { DatumNull, DatumI64(1), DatumI64(2), DatumI64(10), DatumBytes(<<49>>),
      DatumBytes(<<98>>), DatumBytes(<<97, 97>>), DatumBytes(<<97, 115, 100>>) }

\* NULL and "qwe"
ValueDatums == {DatumNull, DatumBytes(<<113, 119, 101>>)}

\* key, value, key, value, ...: n arguments
RECURSIVE KvsOfLen(_)
KvsOfLen(n) ==
    IF n = 0 THEN {<<>>}
    ELSE IF n % 2 = 1 THEN {Append(l, k) : l \in KvsOfLen(n - 1), k \in KeyDatums}
    ELSE {Append(l, v) : l \in KvsOfLen(n - 1), v \in ValueDatums}

KvsInputs == UNION {KvsOfLen(n) : n \in 0..(2 * MaxPairs)}

InitJsonObject ==
    /\ LockIdle
    /\ ctx = NoCtx
    /\ time = NoTime
    /\ aux \in KvsInputs
    /\ out = NoOut
    /\ pc = "kvs"

\* json_object(kvs)
JsonObject ==
    /\ pc = "kvs"
    /\ out' = json_object(aux)
    /\ pc' = "object"
    /\ UNCHANGED <<lock, buf, parsed, checked, ctx, time, aux>>

NextJsonObject == JsonObject

SpecJsonObject == InitJsonObject /\ [][NextJsonObject]_vars

\* the places of the keys of an argument list
KeyPlaces == {i \in DOMAIN aux : i % 2 = 1}

\* the keys of the object built, in their order
ObjectKeys == [i \in DOMAIN out.entries |-> out.entries[i].key]

\* key a comes before key b: it is shorter, or as long and smaller at the
\* first byte that differs
KeyBefore(a, b) ==
    \/ Len(a) < Len(b)
    \/ /\ Len(a) = Len(b)
       /\ \E i \in 1..Len(a) : a[i] < b[i] /\ \A j \in 1..(i - 1) : a[j] = b[j]

----------------------------------------------------------------------------
(* JSON to f64: impl ConvertTo<f64> for JsonRef *)

\* the byte of a JSON literal
JSON_LITERAL_NIL == 0

JSON_LITERAL_TRUE == 1

JSON_LITERAL_FALSE == 2

\* an f64 as mantissa * 2^exponent, the mantissa odd or zero
F64(mantissa, exponent) == [mantissa |-> mantissa, exponent |-> exponent]

\* `n as f64` of an integer below 2^53 in size: exact
RECURSIVE int_as_f64(_, _)
int_as_f64(n, exponent) ==
    IF n = 0 THEN F64(0, 0)
    ELSE IF n % 2 = 0 THEN int_as_f64(n \div 2, exponent + 1)
    ELSE F64(n, exponent)

\* a JsonRef: its type code and what its value slice decodes to, an integer
\* (literal byte, element count) or a double
JsonRef(type_code, value) == [type_code |-> type_code, value |-> value, double |-> F64(0, 0)]

JsonDouble(f) == [type_code |-> "Double", value |-> 0, double |-> f]

\* JsonRef::get_double
get_double(j) == j.double

\* JsonRef::get_literal
get_literal(j) ==
    CASE j.value = JSON_LITERAL_FALSE -> Some(FALSE)
      [] j.value = JSON_LITERAL_TRUE -> Some(TRUE)
      [] OTHER -> None

\* Result<f64> and the warnings appended to ctx.warnings
FOk(val, warn) == [tag |-> "Ok", val |-> Some(val), warn |-> warn, err |-> "none"]

FErr(e) == [tag |-> "Err", val |-> None, warn |-> 0, err |-> e]

\* EvalContext::handle_truncate_err(err).map(|_| 0f64)
handle_truncate_err(c, e) ==
    IF "IGNORE_TRUNCATE" \in c.flag THEN FOk(F64(0, 0), 1)
    ELSE FErr(e)

\* the conversion that gives 0.0 for every other type without asking the
\* context
json_convert_f64_silent(c, j) ==
    CASE j.type_code = "U64" -> FOk(int_as_f64(j.value, 0), 0)
      [] j.type_code = "I64" -> FOk(int_as_f64(j.value, 0), 0)
      [] j.type_code = "Double" -> FOk(get_double(j), 0)
      [] j.type_code = "Literal" ->
            FOk(IF get_literal(j) = Some(TRUE) THEN F64(1, 0) ELSE F64(0, 0), 0)
      [] OTHER -> FOk(F64(0, 0), 0)

\* impl ConvertTo<f64> for JsonRef: convert, of every type but String
json_convert_f64(c, j) ==
    CASE j.type_code = "U64" -> FOk(int_as_f64(j.value, 0), 0)
      [] j.type_code = "I64" -> FOk(int_as_f64(j.value, 0), 0)
      [] j.type_code = "Double" -> FOk(get_double(j), 0)
      [] j.type_code = "Literal" ->
            FOk(IF get_literal(j) = Some(TRUE) THEN F64(1, 0) ELSE F64(0, 0), 0)
      [] OTHER -> handle_truncate_err(c, "truncated_wrong_val")

\* the largest integer of the JSON numbers
MaxJsonInt == 1024

JsonInputs ==
    {JsonRef("U64", n) : n \in 0..MaxJsonInt}
    \cup {JsonRef("I64", n) : n \in (-MaxJsonInt)..MaxJsonInt}
    \cup {JsonDouble(F64(m, e)) : m \in {-9, -1, 0, 1, 3, 9}, e \in {-1, 0, 4}}
    \cup {JsonRef("Literal", b) : b \in {JSON_LITERAL_NIL, JSON_LITERAL_TRUE, JSON_LITERAL_FALSE}}
    \cup {JsonRef(t, n) : t \in {"Object", "Array"}, n \in 0..2}
    \cup {JsonRef(t, 0) : t \in {"Opaque", "Date", "Datetime", "Timestamp", "Time"}}

JsonCtxs == {EvalContext({}, f, TZ_UTC) : f \in FlagInputs}

InitJsonF64 ==
    /\ LockIdle
    /\ ctx \in JsonCtxs
    /\ aux \in JsonInputs
    /\ time = NoTime
    /\ out = NoOut
    /\ pc = "json"

\* json.convert(ctx) to an f64
ConvertF64 ==
    /\ pc = "json"
    /\ out' = json_convert_f64(ctx, aux)
    /\ pc' = "real"
    /\ UNCHANGED <<lock, buf, parsed, checked, ctx, time, aux>>

NextJsonF64 == ConvertF64

SpecJsonF64 == InitJsonF64 /\ [][NextJsonF64]_vars

RECURSIVE Pow2(_)
Pow2(e) == IF e = 0 THEN 1 ELSE 2 * Pow2(e - 1)

\* the f64 is the integer n
F64IsInt(f, n) == f.exponent >= 0 /\ f.mantissa * Pow2(f.exponent) = n

----------------------------------------------------------------------------
(* the lock info of a KeyIsLocked error *)

InfoLocks ==
    { LockNew(t, p, U64(100), U64(3), sv, f, n, c, w) :
        t \in LockType, p \in {<<>>, KeyFoo}, sv \in {None, Some(<<115, 118>>)},
        f \in {U64_ZERO, U64(333)}, n \in {U64_ZERO, U64(444)},
        c \in {U64_ZERO, U64(150)}, w \in BOOLEAN }

\* the locks that differ from l in one field the client does not see, or in
\* all of them
InternalVariants(l) ==
    { with_rollback_ts(l, <<U64(12)>>),
      set_last_change(l, LastChangeExist(U64(4), U64(2))),
      set_txn_source(l, U64(1)),
      with_generation(l, U64(10)),
      [l EXCEPT !.is_locked_with_conflict = ~@],
      [l EXCEPT !.short_value = IF @ = None THEN Some(<<115>>) ELSE None],
      [l EXCEPT !.use_one_pc = ~@],
      with_generation(set_txn_source(set_last_change(with_rollback_ts(
          [l EXCEPT !.is_locked_with_conflict = ~@, !.use_one_pc = ~@, !.short_value = None],
          <<U64(12), U64(24)>>), LastChangeNotExist), U64(1)), U64(10)) }

InitLockInfo ==
    /\ lock \in InfoLocks \cup {use_async_commit(l, s) : l \in InfoLocks, s \in SecondariesInputs}
    /\ buf = <<>>
    /\ parsed = NoResult
    /\ checked = NoCheck
    /\ pc = "build"
    /\ TimeIdle

\* Lock::check_ts_conflict(.., IsolationLevel::Si) of the lock and of a lock
\* that differs in internal fields only
CheckTsConflictSiPair ==
    /\ pc = "build"
    /\ \E raw \in {KeyFoo, KeyBar}, ts \in {U64(110), U64(160), U64_MAX},
          bypass \in {{}, {U64(100)}}, o \in InternalVariants(lock) :
          checked' = [ tag |-> "check", key |-> from_raw(raw), ts |-> ts,
                       bypass_locks |-> bypass, other |-> o,
                       res |-> check_ts_conflict(lock, from_raw(raw), ts, bypass, "Si"),
                       other_res |-> check_ts_conflict(o, from_raw(raw), ts, bypass, "Si") ]
    /\ pc' = "checked"
    /\ UNCHANGED <<lock, buf, parsed, ctx, time, aux, out>>

\* lock.into_lock_info(raw_key) of the lock and of such a lock
IntoLockInfoPair ==
    /\ pc = "build"
    /\ \E raw \in {KeyFoo, KeyBar}, o \in InternalVariants(lock) :
          checked' = [ tag |-> "info", key |-> from_raw(raw), ts |-> lock.ts,
                       bypass_locks |-> {}, other |-> o,
                       res |-> KeyIsLocked(into_lock_info(lock, raw)),
                       other_res |-> KeyIsLocked(into_lock_info(o, raw)) ]
    /\ pc' = "projected"
    /\ UNCHANGED <<lock, buf, parsed, ctx, time, aux, out>>

NextLockInfo == CheckTsConflictSiPair \/ IntoLockInfoPair

SpecLockInfo == InitLockInfo /\ [][NextLockInfo]_vars

\* the ten fields of the lock info of `lock` for the key checked
ExpectedLockInfo ==
    [ primary_lock |-> lock.primary,
      lock_version |-> lock.ts,
      key |-> checked.key.raw,
      lock_ttl |-> lock.ttl,
      txn_size |-> lock.txn_size,
      lock_type |-> CASE lock.lock_type = "Put" -> "Put"
                      [] lock.lock_type = "Delete" -> "Del"
                      [] lock.lock_type = "Lock" -> "Lock"
                      [] lock.lock_type = "Pessimistic" -> "PessimisticLock",
      lock_for_update_ts |-> lock.for_update_ts,
      use_async_commit |-> lock.use_async_commit,
      min_commit_ts |-> lock.min_commit_ts,
      secondaries |-> lock.secondaries ]

\* C22: the lock info of a KeyIsLocked error of the SI check, and of
\* into_lock_info itself, has the primary, ts, the raw key checked, ttl,
\* txn_size, the Op of the lock type, for_update_ts, use_async_commit,
\* min_commit_ts and the secondaries of the lock, and a lock that differs only
\* in last_change, txn_source, is_locked_with_conflict, generation,
\* short_value, rollback_ts or use_one_pc gives the same lock info
C22_LockInfo ==
    (pc \in {"checked", "projected"} /\ checked.res.tag = "KeyIsLocked") =>
        /\ checked.res.info = ExpectedLockInfo
        /\ checked.other_res.tag = "KeyIsLocked" => checked.other_res.info = checked.res.info

\* the SI check of an async-commit Put lock with secondaries at a later read
\* ts: KeyIsLocked, and the same for a lock with other internal fields
C22_Witness ==
    /\ pc = "checked"
    /\ lock.use_async_commit
    /\ lock.secondaries # <<>>
    /\ checked.other.generation # lock.generation
    /\ checked.other.rollback_ts # lock.rollback_ts
    /\ checked.res.tag = "KeyIsLocked"
    /\ checked.other_res.tag = "KeyIsLocked"
    /\ checked.res.info.secondaries = lock.secondaries

----------------------------------------------------------------------------
(* the tagged fields of an encoded lock and its pre-computed size *)

MAX_VAR_I64_LEN == 10

\* size_of::<u64>()
SIZE_OF_U64 == 8

\* self.secondaries.iter().map(|k| MAX_VAR_I64_LEN + k.len()).sum()
RECURSIVE SecondariesSize(_)
SecondariesSize(s) ==
    IF s = <<>> THEN 0 ELSE MAX_VAR_I64_LEN + Len(Head(s)) + SecondariesSize(Tail(s))

\* pre_allocate_size that leaves the length of the primary out
pre_allocate_size_no_primary(l) ==
    1 + MAX_VAR_I64_LEN + MAX_VAR_U64_LEN * 2
    + (IF l.short_value # None THEN 2 + Len(l.short_value[1]) ELSE 0)
    + (IF l.for_update_ts # U64_ZERO THEN 1 + SIZE_OF_U64 ELSE 0)
    + (IF U64Gt(l.txn_size, U64_ZERO) THEN 1 + SIZE_OF_U64 ELSE 0)
    + (IF l.min_commit_ts # U64_ZERO THEN 1 + SIZE_OF_U64 ELSE 0)
    + (IF l.use_async_commit
       THEN 1 + MAX_VAR_U64_LEN + SecondariesSize(l.secondaries) ELSE 0)
    + (IF l.rollback_ts # <<>>
       THEN 1 + MAX_VAR_U64_LEN + SIZE_OF_U64 * Len(l.rollback_ts) ELSE 0)
    + (IF l.last_change.kind \in {"NotExist", "Exist"}
       THEN 1 + SIZE_OF_U64 + MAX_VAR_U64_LEN ELSE 0)
    + (IF l.txn_source # U64_ZERO THEN 1 + MAX_VAR_U64_LEN ELSE 0)
    + (IF l.is_locked_with_conflict THEN 1 ELSE 0)
    + (IF U64Gt(l.generation, U64_ZERO) THEN 1 + SIZE_OF_U64 ELSE 0)

\* Lock::pre_allocate_size
pre_allocate_size(l) ==
    1 + MAX_VAR_I64_LEN + Len(l.primary) + MAX_VAR_U64_LEN * 2
    + (IF l.short_value # None THEN 2 + Len(l.short_value[1]) ELSE 0)
    + (IF l.for_update_ts # U64_ZERO THEN 1 + SIZE_OF_U64 ELSE 0)
    + (IF U64Gt(l.txn_size, U64_ZERO) THEN 1 + SIZE_OF_U64 ELSE 0)
    + (IF l.min_commit_ts # U64_ZERO THEN 1 + SIZE_OF_U64 ELSE 0)
    + (IF l.use_async_commit
       THEN 1 + MAX_VAR_U64_LEN + SecondariesSize(l.secondaries) ELSE 0)
    + (IF l.rollback_ts # <<>>
       THEN 1 + MAX_VAR_U64_LEN + SIZE_OF_U64 * Len(l.rollback_ts) ELSE 0)
    + (IF l.last_change.kind \in {"NotExist", "Exist"}
       THEN 1 + SIZE_OF_U64 + MAX_VAR_U64_LEN ELSE 0)
    + (IF l.txn_source # U64_ZERO THEN 1 + MAX_VAR_U64_LEN ELSE 0)
    + (IF l.is_locked_with_conflict THEN 1 ELSE 0)
    + (IF U64Gt(l.generation, U64_ZERO) THEN 1 + SIZE_OF_U64 ELSE 0)

\* b"short_value"
ShortValueText == <<115, 104, 111, 114, 116, 95, 118, 97, 108, 117, 101>>

\* a key whose length takes two bytes as a compact-bytes prefix
LongKey == [i \in 1..64 |-> 107]

EncodeLocks ==
    { LockNew(t, p, ts, U64(222), sv, f, n, c, w) :
        t \in LockType, p \in {<<>>, KeyPk, LongKey}, ts \in TsInputs,
        sv \in {None, Some(ShortValueText), Some([i \in 1..(U8_MAX + 1) |-> 0])},
        f \in {U64_ZERO, U64(333)}, n \in {U64_ZERO, U64(444)},
        c \in {U64_ZERO, U64(555)}, w \in BOOLEAN }

InitEncode ==
    /\ lock \in EncodeLocks
    /\ buf = <<>>
    /\ parsed = NoResult
    /\ checked = NoCheck
    /\ pc = "build"
    /\ TimeIdle

NextEncode ==
    \/ UseAsyncCommit
    \/ WithRollbackTs
    \/ SetLastChange
    \/ SetTxnSource
    \/ WithGeneration
    \/ SetUseOnePc
    \/ ToBytes

SpecEncode == InitEncode /\ [][NextEncode]_vars

\* the bytes of an encoded lock after lock_type, primary, ts and ttl
TaggedFields(b) ==
    decode_var_u64(decode_var_u64(decode_compact_bytes(Tail(b)).rest).rest).rest

\* the tags of the fields in b, in the order met; a short value of vlen
\* bytes; 0 for a byte that is no tag
RECURSIVE ScanTags(_, _)
ScanTags(b, vlen) ==
    IF b = <<>> THEN <<>>
    ELSE CASE Head(b) = SHORT_VALUE_PREFIX ->
                <<Head(b)>> \o ScanTags(Drop(b, 2 + vlen), vlen)
           [] Head(b) \in {FOR_UPDATE_TS_PREFIX, TXN_SIZE_PREFIX, MIN_COMMIT_TS_PREFIX, GENERATION_PREFIX} ->
                <<Head(b)>> \o ScanTags(Drop(b, 1 + SIZE_OF_U64), vlen)
           [] Head(b) = ASYNC_COMMIT_PREFIX ->
                <<Head(b)>> \o ScanTags(DecodeKeys(decode_var_u64(Tail(b)).rest,
                                                   as_usize(decode_var_u64(Tail(b)).val)).rest, vlen)
           [] Head(b) = ROLLBACK_TS_PREFIX ->
                <<Head(b)>> \o ScanTags(Drop(decode_var_u64(Tail(b)).rest,
                                             SIZE_OF_U64 * as_usize(decode_var_u64(Tail(b)).val)), vlen)
           [] Head(b) = LAST_CHANGE_PREFIX ->
                <<Head(b)>> \o ScanTags(decode_var_u64(Drop(b, 1 + SIZE_OF_U64)).rest, vlen)
           [] Head(b) = TXN_SOURCE_PREFIX ->
                <<Head(b)>> \o ScanTags(decode_var_u64(Tail(b)).rest, vlen)
           [] Head(b) = PESSIMISTIC_LOCK_WITH_CONFLICT_PREFIX ->
                <<Head(b)>> \o ScanTags(Tail(b), vlen)
           [] OTHER -> <<0>>

\* the tags written into buf for `lock`
BufTags ==
    ScanTags(TaggedFields(buf), IF lock.short_value = None THEN 0 ELSE Len(lock.short_value[1]))

\* the field of a tag is not at its default
NotDefault(l, tag) ==
    CASE tag = SHORT_VALUE_PREFIX -> l.short_value # None
      [] tag = FOR_UPDATE_TS_PREFIX -> l.for_update_ts # U64_ZERO
      [] tag = TXN_SIZE_PREFIX -> l.txn_size # U64_ZERO
      [] tag = MIN_COMMIT_TS_PREFIX -> l.min_commit_ts # U64_ZERO
      [] tag = ASYNC_COMMIT_PREFIX -> l.use_async_commit
      [] tag = ROLLBACK_TS_PREFIX -> l.rollback_ts # <<>>
      [] tag = LAST_CHANGE_PREFIX -> l.last_change.kind # "Unknown"
      [] tag = TXN_SOURCE_PREFIX -> l.txn_source # U64_ZERO
      [] tag = PESSIMISTIC_LOCK_WITH_CONFLICT_PREFIX -> l.is_locked_with_conflict
      [] tag = GENERATION_PREFIX -> l.generation # U64_ZERO

\* C23: to_bytes writes the field of a tag if and only if the field is not
\* at its default (for_update_ts, txn_size, min_commit_ts, txn_source,
\* generation non-zero; rollback_ts non-empty; use_async_commit and
\* is_locked_with_conflict true; last_change not Unknown; short_value
\* present), and a lock with every such field at its default encodes to
\* exactly lock_type, compact-bytes primary, varuint ts, varuint ttl
C23_TaggedIffNotDefault ==
    pc = "encoded" =>
        \A tags \in {BufTags} :
            /\ \A i \in 1..Len(tags) : tags[i] \in KnownTags
            /\ \A tag \in KnownTags :
                  (\E i \in 1..Len(tags) : tags[i] = tag) <=> NotDefault(lock, tag)
            /\ (\A tag \in KnownTags : ~NotDefault(lock, tag)) =>
                  buf = <<to_u8(lock.lock_type)>> \o encode_compact_bytes(lock.primary)
                            \o encode_var_u64(lock.ts) \o encode_var_u64(lock.ttl)

\* an encoded lock with txn_source and last_change set and every field
\* given to Lock::new at its default: two tags
C23_Witness ==
    /\ pc = "encoded"
    /\ lock.txn_source # U64_ZERO
    /\ lock.last_change.kind = "NotExist"
    /\ lock.short_value = None
    /\ lock.for_update_ts = U64_ZERO
    /\ ~lock.is_locked_with_conflict
    /\ Len(BufTags) = 2

\* the documented order of the tags
TagOrder ==
    << SHORT_VALUE_PREFIX, FOR_UPDATE_TS_PREFIX, TXN_SIZE_PREFIX, MIN_COMMIT_TS_PREFIX,
       ASYNC_COMMIT_PREFIX, ROLLBACK_TS_PREFIX, LAST_CHANGE_PREFIX, TXN_SOURCE_PREFIX,
       PESSIMISTIC_LOCK_WITH_CONFLICT_PREFIX, GENERATION_PREFIX >>

TagIndex(tag) == CHOOSE i \in 1..Len(TagOrder) : TagOrder[i] = tag

\* the lock of tests::test_lock with a short value and async commit
ExampleLock ==
    use_async_commit(LockNew("Put", KeyPk, U64(111), U64(222), Some(ShortValueText),
                             U64(333), U64(444), U64(555), FALSE), <<>>)

\* C24: in every output of to_bytes each tag occurs at most once and the
\* tags appear in the order v, f, t, c, a, r, l, s, F, g after lock_type,
\* primary, ts and ttl; the bytes do not depend on use_one_pc; and the lock
\* Put, "pk", 111, 222, "short_value", 333, 444, 555 with async commit and
\* no secondaries encodes as 'P', compact-bytes pk, varuint 111, varuint
\* 222, 'v' 11 short_value, 'f' u64 333, 't' u64 444, 'c' u64 555, 'a'
\* varuint 0
C24_Canonical ==
    pc = "encoded" =>
        /\ \A tags \in {BufTags} :
              /\ \A i \in 1..Len(tags) : tags[i] \in KnownTags
              /\ \A i, j \in 1..Len(tags) : i < j => TagIndex(tags[i]) < TagIndex(tags[j])
        /\ to_bytes([lock EXCEPT !.use_one_pc = ~@]) = buf
        /\ lock = ExampleLock =>
              buf = <<80>> \o encode_compact_bytes(KeyPk) \o encode_var_u64(U64(111))
                        \o encode_var_u64(U64(222)) \o <<118, 11>> \o ShortValueText
                        \o <<102>> \o encode_u64(U64(333))
                        \o <<116>> \o encode_u64(U64(444))
                        \o <<99>> \o encode_u64(U64(555))
                        \o <<97>> \o encode_var_u64(U64_ZERO)

\* the example lock has been encoded, and so has a lock with last_change
\* and txn_source both set
C24_Witness ==
    /\ pc = "encoded"
    /\ \/ lock = ExampleLock
       \/ /\ lock.last_change.kind = "Exist"
          /\ lock.txn_source # U64_ZERO
          /\ lock.use_one_pc = FALSE
          /\ Len(BufTags) >= 5

\* C25: for every Lock, pre_allocate_size() is at least the length of
\* to_bytes()
C25_PreAllocateSize ==
    pc = "encoded" => pre_allocate_size(lock) >= Len(buf)

\* an encoded async-commit lock with two secondaries, a rollback list, a
\* 64-byte primary and a 256-byte short value
C25_Witness ==
    /\ pc = "encoded"
    /\ lock.use_async_commit /\ Len(lock.secondaries) = 2
    /\ lock.rollback_ts # <<>>
    /\ Len(lock.primary) = 64
    /\ lock.short_value # None /\ Len(lock.short_value[1]) > U8_MAX
    /\ Len(buf) > 300

----------------------------------------------------------------------------
(* the time codec: the carry of Time::round_frac *)

CarryCtxs ==
    { EvalContext(sm, fl, tz) :
        sm \in { {}, {"INVALID_DATES"}, {"NO_ZERO_DATE"}, {"NO_ZERO_IN_DATE"},
                 {"NO_ZERO_DATE", "STRICT_TRANS_TABLES"},
                 {"NO_ZERO_IN_DATE", "STRICT_TRANS_TABLES"},
                 {"NO_ZERO_DATE", "STRICT_TRANS_TABLES", "INVALID_DATES"} },
        fl \in {{}, {"IGNORE_TRUNCATE"}}, tz \in {TZ_UTC, TZ_EAST} }

\* the values of tests::test_round_frac, and values one rounding step before
\* the end of the second, the day, the month and the year, with and without
\* a zero year, month or day
CarryArgs ==
    { TimeArgs(y, m, d, h, 59, 59, u, f, tt) :
        y \in {0, 2012}, m \in {0, 1, 4, 12}, d \in {0, 1, 30, 31}, h \in {11, 23},
        u \in {499999, 999999}, f \in {3, 6}, tt \in {"DateTime", "Timestamp"} }
    \cup { TimeArgs(2012, 12, 31, 11, 30, 45, u, 6, "DateTime") : u \in {123345, 123456, 900000, 999999} }
    \cup { TimeArgs(2012, 0, 0, 11, 30, 45, 999999, 6, "DateTime"),
           TimeArgs(2012, 2, 29, 23, 59, 59, 999999, 6, "DateTime"),
           TimeArgs(9999, 12, 31, 23, 59, 59, 999999, 6, "DateTime"),
           TimeArgs(2038, 1, 19, 3, 14, 7, 999999, 6, "Timestamp") }

InitCarry ==
    /\ LockIdle
    /\ ctx \in CarryCtxs
    /\ aux \in CarryArgs
    /\ time = NoTime
    /\ out = NoOut
    /\ pc = "args"

NextCarry == New \/ RoundFrac

SpecCarry == InitCarry /\ [][NextCarry]_vars

\* rounding the fraction of t to f digits carries into the second
CarryIntoSecond(t, f) == f < MAX_FSP /\ t.micro + 5 * TenPow(MAX_FSP - 1 - f) >= MICROS_PER_SEC

\* ... and from there through minute and hour into the day
CarryIntoDay(t, f) ==
    CarryIntoSecond(t, f) /\ t.second = 59 /\ t.minute = 59 /\ t.hour = 23

\* ... out of the last day into the month
CarryIntoMonth(t, f) == CarryIntoDay(t, f) /\ t.day = last_day_of_month(t.year, t.month)

\* ... out of month 12 into the year
CarryIntoYear(t, f) == CarryIntoMonth(t, f) /\ t.month = 12

\* the carry has to pass through a component that cannot receive it
CarryBlocked(t, f) ==
    \/ CarryIntoDay(t, f) /\ (t.day = 0 \/ t.day > last_day_of_month(t.year, t.month))
    \/ CarryIntoMonth(t, f) /\ t.month = 0
    \/ CarryIntoYear(t, f) /\ t.year = 0

\* round_frac(time, f) has been called on a DateTime or Timestamp that is
\* not zero, with f no greater than its fsp
Rounded ==
    /\ pc = "rounded"
    /\ get_time_type(time) # "Date"
    /\ ~is_zero(time)
    /\ out.fsp <= fsp(time)

\* the outcome is the zero value of the type of `time` with precision f
ForcedZero ==
    /\ out.res.tag = "Ok"
    /\ is_zero(out.res.val)
    /\ fsp(out.res.val) = out.fsp
    /\ get_time_type(out.res.val) = get_time_type(time)

\* the outcome, when there is one, keeps year, month and day
SameDate ==
    out.res.tag = "Ok" =>
        /\ out.res.val.year = time.year
        /\ out.res.val.month = time.month
        /\ out.res.val.day = time.day

\* C26 as stated: round_frac(t, f) with f <= t.fsp gives the zero value with
\* precision f whenever the rounding carry would have to pass through a
\* component that cannot receive it (out of hour 23 into a day that is 0 or
\* past the month's last day, out of the last day into month 0, out of month
\* 12 into year 0), and a carry that stops below the day leaves year, month
\* and day of the result unchanged.
C26_CarryForcesZero ==
    Rounded =>
        /\ CarryBlocked(time, out.fsp) => ForcedZero
        /\ (CarryIntoSecond(time, out.fsp) /\ ~CarryIntoDay(time, out.fsp)) => SameDate

\* the part of C26 that holds: on such a carry round_frac returns the zero
\* value of the type with precision f or, in strict mode only, an error; it
\* returns the zero value when neither NO_ZERO_DATE nor NO_ZERO_IN_DATE is
\* set; and a carry that stops below the day leaves year, month and day of
\* the result unchanged for a DateTime whose day is not past the month's
\* last day.
C26_CarryForcesZeroChecked ==
    Rounded =>
        /\ CarryBlocked(time, out.fsp) =>
              /\ out.res.tag = "Ok" => ForcedZero
              /\ out.res.tag = "Err" => strict_mode(ctx) /\ ~ignore_truncate(ctx)
              /\ ctx.sql_mode \cap {"NO_ZERO_DATE", "NO_ZERO_IN_DATE"} = {} => out.res.tag = "Ok"
        /\ ( /\ CarryIntoSecond(time, out.fsp)
             /\ ~CarryIntoDay(time, out.fsp)
             /\ get_time_type(time) = "DateTime"
             /\ time.day <= last_day_of_month(time.year, time.month) ) => SameDate

\* a carry that stops at the hour of a date whose day is past the month's
\* last day, or a blocked carry under a rejected zero date
C26_Diverges ==
    /\ Rounded
    /\ \/ /\ CarryIntoSecond(time, out.fsp) /\ ~CarryIntoDay(time, out.fsp)
          /\ out.res.tag = "Ok"
          /\ out.res.val.month # time.month
       \/ /\ CarryBlocked(time, out.fsp)
          /\ out.res.tag = "Err"


----------------------------------------------------------------------------
(* the time codec: the constructors and conversions that give a Date *)

\* Time::zero
time_zero(c, f, time_type) == TimeNew(c, TimeArgsZero(f, time_type))

\* Time::get_date_from_daynr: `while day_of_year > days_in_year`
RECURSIVE daynr_year(_, _)
daynr_year(year, day_of_year) ==
    IF day_of_year > (IF is_leap_year(year) THEN 366 ELSE 365)
    THEN daynr_year(year + 1, day_of_year - (IF is_leap_year(year) THEN 366 ELSE 365))
    ELSE <<year, day_of_year>>

\* Time::get_date_from_daynr: `for each_month in 1..=12`, (month, day)
RECURSIVE daynr_month(_, _, _)
daynr_month(year, each_month, day_of_year) ==
    IF each_month > 12 \/ day_of_year <= last_day_of_month(year, each_month)
    THEN <<each_month, day_of_year>>
    ELSE daynr_month(year, each_month + 1, day_of_year - last_day_of_month(year, each_month))

daynr_date(yd) == <<yd[1]>> \o daynr_month(yd[1], 1, yd[2])

daynr_from_year(daynr, year) ==
    daynr_date(daynr_year(year, daynr - year * 365 - (year - 1) \div 4 + ((((year - 1) \div 100 + 1) * 3) \div 4)))

\* Time::get_date_from_daynr: (year, month, day)
get_date_from_daynr(daynr) ==
    IF daynr <= 365 \/ daynr >= 3652425 THEN <<0, 0, 0>>
    ELSE daynr_from_year(daynr, (daynr * 100) \div 36525)

from_days_date(c, ymd) == TimeNew(c, TimeArgs(ymd[1], ymd[2], ymd[3], 0, 0, 0, 0, 0, "Date"))

\* Time::from_days
from_days(c, daynr) == from_days_date(c, get_date_from_daynr(daynr))

\* parser::parse_from_i64_default: Option<Time> as a Result<Time>
parse_from_i64_default(c, input) ==
    IF input = I64(FALSE, 0, 0, 0) THEN time_zero(c, DEFAULT_FSP, "Date")
    ELSE parse_from_i64_aligned(c, aligned_i64(input),
                                IF ~input.neg /\ (input.a > 0 \/ input.b >= 101) THEN "DateTime" ELSE "Date",
                                DEFAULT_FSP)

time_parse_fsp(c, components, time_type, g, round) ==
    IF g = None THEN TErr(0) ELSE parser_parse(c, components, time_type, g[1], round)

\* Time::parse of an input split into components
time_parse(c, components, time_type, f, round) ==
    time_parse_fsp(c, components, time_type, check_fsp(f), round)

\* Time::parse_date
parse_date(c, components) == time_parse(c, components, "Date", 0, FALSE)

\* Time::set_time_type: the hour, minute, second, micro and fsp cleared on
\* the way to a Date
set_time_type_cleared(t, time_type) ==
    IF get_time_type(t) # time_type /\ time_type = "Date"
    THEN set_fsp([t EXCEPT !.hour = 0, !.minute = 0, !.second = 0, !.micro = 0], 0)
    ELSE t

set_time_type_checked(t, time_type) ==
    IF get_time_type(t) # time_type /\ time_type = "Timestamp"
    THEN [tag |-> "Err", val |-> t]
    ELSE [tag |-> "Ok", val |-> set_tt(t, time_type)]

\* set_time_type that keeps the time of day on the way to a Date
set_time_type_kept(t, time_type) ==
    IF get_time_type(t) # time_type /\ time_type = "Timestamp"
    THEN [tag |-> "Err", val |-> t]
    ELSE [tag |-> "Ok", val |-> set_tt(t, time_type)]

\* Time::set_time_type: the Result and the value left in self
set_time_type(t, time_type) == set_time_type_checked(set_time_type_cleared(t, time_type), time_type)

DateCtxs == { EvalContext(sm, {}, tz) : sm \in {{}, {"INVALID_DATES"}, {"NO_ZERO_DATE"}}, tz \in {TZ_UTC, TZ_EAST} }

\* 0000-00-00, 2019-12-31 and 2019-00-00 with and without a time of day
\* and a fraction
DatePacked ==
    { PackedU64(ymd, hms, micro) :
        ymd \in {0, (2019 * 13 + 12) * DAY_BITS + 31, (2019 * 13) * DAY_BITS},
        hms \in {0, 1, 23 * 4096 + 59 * 64 + 59}, micro \in {0, 999999} }

DateDaynrs == {0, 365, 366, 730, 36525, 730669, 737789, 3652424, 3652425}

\* "2019-12-31", "2019.12.31.23.59.59" and "2019.12.31.23.59.59.999999" of
\* tests::test_parse_valid_date
DateComponents ==
    { SubSeq(BaseComponents, 1, 3), BaseComponents,
      Append(BaseComponents, <<57, 57, 57, 57, 57, 57>>) }

InitDate ==
    /\ LockIdle
    /\ ctx \in DateCtxs
    /\ aux = NoAux
    /\ time = NoTime
    /\ out = NoOut
    /\ pc = "start"

\* Time::zero(ctx, fsp, time_type)
Zero ==
    /\ pc = "start"
    /\ \E tt \in TimeType, f \in {0, MAX_FSP} :
          /\ aux' = [by |-> "zero", time_type |-> tt, hms |-> FALSE]
          /\ out' = time_zero(ctx, f, tt)
    /\ time' = out'.val
    /\ pc' = "made"
    /\ UNCHANGED <<lock, buf, parsed, checked, ctx>>

\* Time::from_days(ctx, daynr)
FromDays ==
    /\ pc = "start"
    /\ \E daynr \in DateDaynrs :
          /\ aux' = [by |-> "from_days", time_type |-> "Date", hms |-> FALSE]
          /\ out' = from_days(ctx, daynr)
    /\ time' = out'.val
    /\ pc' = "made"
    /\ UNCHANGED <<lock, buf, parsed, checked, ctx>>

\* Time::from_packed_u64(ctx, value, time_type, fsp)
FromPackedU64Typed ==
    /\ pc = "start"
    /\ \E value \in DatePacked, tt \in TimeType, f \in {0, MAX_FSP} :
          /\ aux' = [by |-> "from_packed_u64", time_type |-> tt,
                     hms |-> (value[2] # 0 \/ value[3] # 0)]
          /\ out' = from_packed_u64(ctx, value, tt, f)
    /\ time' = out'.val
    /\ pc' = "made"
    /\ UNCHANGED <<lock, buf, parsed, checked, ctx>>

\* Time::parse_from_i64(ctx, input, time_type, fsp)
ParseFromI64Typed ==
    /\ pc = "start"
    /\ \E input \in I64Inputs, tt \in TimeType, f \in {0, MAX_FSP} :
          /\ aux' = [by |-> "parse_from_i64", time_type |-> tt, hms |-> (input.c # 0)]
          /\ out' = time_parse_from_i64(ctx, input, tt, f)
    /\ time' = out'.val
    /\ pc' = "made"
    /\ UNCHANGED <<lock, buf, parsed, checked, ctx>>

\* Time::parse_from_i64_default(ctx, input)
ParseFromI64Default ==
    /\ pc = "start"
    /\ \E input \in I64Inputs :
          /\ aux' = [by |-> "parse_from_i64_default", time_type |-> "Date", hms |-> (input.c # 0)]
          /\ out' = ok_or_incorrect_datetime_value(parse_from_i64_default(ctx, input))
    /\ time' = out'.val
    /\ pc' = "made"
    /\ UNCHANGED <<lock, buf, parsed, checked, ctx>>

\* Time::parse(ctx, input, time_type, fsp, round); parse_date is
\* parse(ctx, input, Date, 0, false)
TimeParse ==
    /\ pc = "start"
    /\ \E components \in DateComponents, tt \in TimeType, f \in {0, MAX_FSP}, round \in BOOLEAN :
          /\ aux' = [by |-> "parse", time_type |-> tt, hms |-> (Len(components) > 3)]
          /\ out' = time_parse(ctx, components, tt, f, round)
    /\ time' = out'.val
    /\ pc' = "made"
    /\ UNCHANGED <<lock, buf, parsed, checked, ctx>>

\* time.set_time_type(time_type)
SetTimeType ==
    /\ pc = "made"
    /\ out.tag = "Ok"
    /\ \E tt \in TimeType :
          /\ out' = [tag |-> set_time_type(time, tt).tag, val |-> time, warn |-> 0, to |-> tt]
          /\ time' = set_time_type(time, tt).val
    /\ pc' = "converted"
    /\ UNCHANGED <<lock, buf, parsed, checked, ctx, aux>>

NextDate ==
    \/ Zero
    \/ FromDays
    \/ FromPackedU64Typed
    \/ ParseFromI64Typed
    \/ ParseFromI64Default
    \/ TimeParse
    \/ SetTimeType

SpecDate == InitDate /\ [][NextDate]_vars

\* a Date has been returned by a constructor or left by set_time_type
DateReturned ==
    /\ pc \in {"made", "converted"}
    /\ time # NoTime
    /\ get_time_type(time) = "Date"

NoTimeOfDay(t) ==
    /\ t.hour = 0 /\ t.minute = 0 /\ t.second = 0 /\ t.micro = 0
    /\ fsp(t) = 0

\* C27 as stated: every Time of type Date returned by parse, parse_date,
\* parse_from_i64, parse_from_i64_default, from_packed_u64, from_days, zero
\* or set_time_type(Date) has hour = minute = second = micro = 0 and fsp 0.
C27_DateHasNoTimeOfDay == DateReturned => NoTimeOfDay(time)

\* the same for every Date that does not come from from_packed_u64 with the
\* type Date and a packed value with a time of day
C27_DateHasNoTimeOfDayUnpacked ==
    (DateReturned /\ ~(aux.by = "from_packed_u64" /\ aux.time_type = "Date" /\ aux.hms)) =>
        NoTimeOfDay(time)

\* a DateTime parsed with a time of day and a fraction has been converted
\* to a Date
C27_Converted ==
    /\ pc = "converted"
    /\ aux.by = "parse" /\ aux.time_type = "DateTime" /\ aux.hms
    /\ out.val.hour = 23 /\ out.val.micro # 0
    /\ DateReturned
    /\ NoTimeOfDay(time)

----------------------------------------------------------------------------
(* the time codec: the type and the fsp of a sum *)

\* checked_add or checked_sub has returned a value
Computed == pc = "computed" /\ out.res.tag = "Ok"

\* C28 as stated: checked_add and checked_sub preserve the time type and
\* the fsp of their operand, for every duration for which a result is
\* returned.
C28_ArithKeepsTypeAndFsp ==
    Computed =>
        /\ get_time_type(out.res.val) = get_time_type(time)
        /\ fsp(out.res.val) = fsp(time)

\* what holds: every result has the fsp of the operand and is a Timestamp
C28_ArithKeepsFsp ==
    Computed =>
        /\ get_time_type(out.res.val) = "Timestamp"
        /\ fsp(out.res.val) = fsp(time)

\* a DateTime operand with fsp 6 and a result
C28_DateTimeOperand ==
    /\ Computed
    /\ get_time_type(time) = "DateTime"
    /\ fsp(time) = 6
    /\ get_time_type(out.res.val) = "Timestamp"

----------------------------------------------------------------------------
(* the two isolation levels of the conflict check side by side *)

\* timestamps added to bypass_locks
MoreBypassInputs == { {U64(100)}, {U64(7)}, {U64(100), U64(160)} }

\* Lock::check_ts_conflict under RcCheckTs and under Si with the same
\* arguments, and again with more timestamps in bypass_locks
CheckTsConflictLevels ==
    /\ pc = "build"
    /\ \E raw \in {KeyFoo, KeyBar}, ts \in ReadTsInputs, bypass \in BypassInputs,
          more \in MoreBypassInputs :
          checked' = [ tag |-> "levels", key |-> from_raw(raw), ts |-> ts,
                       bypass_locks |-> bypass, more |-> more,
                       rc |-> check_ts_conflict(lock, from_raw(raw), ts, bypass, "RcCheckTs"),
                       si |-> check_ts_conflict(lock, from_raw(raw), ts, bypass, "Si"),
                       rc_more |-> check_ts_conflict(lock, from_raw(raw), ts, bypass \cup more, "RcCheckTs"),
                       si_more |-> check_ts_conflict(lock, from_raw(raw), ts, bypass \cup more, "Si") ]
    /\ pc' = "checked"
    /\ UNCHANGED <<lock, buf, parsed, ctx, time, aux, out>>

NextLevels ==
    \/ UseAsyncCommit
    \/ SetUseOnePc
    \/ CheckTsConflictLevels

SpecLevels == InitCheck /\ [][NextLevels]_vars

\* C29: when the RcCheckTs check returns Ok, the SI check of a non-replica
\* read returns Ok for the same lock, key, ts and bypass_locks; and under
\* either level a check that returns Ok still returns Ok with more
\* timestamps in bypass_locks
C29_RcCheckTsAtLeastAsStrict ==
    pc = "checked" =>
        /\ checked.rc = CheckOk => checked.si = CheckOk
        /\ checked.rc = CheckOk => checked.rc_more = CheckOk
        /\ checked.si = CheckOk => checked.si_more = CheckOk

\* a Put lock older than the read whose ts is in bypass_locks: Ok under
\* both levels, and still Ok with another timestamp added
C29_Witness ==
    /\ pc = "checked"
    /\ lock.lock_type = "Put"
    /\ lock.min_commit_ts = U64_ZERO
    /\ U64Lt(lock.ts, checked.ts)
    /\ lock.ts \in checked.bypass_locks
    /\ lock.ts \notin checked.more
    /\ checked.rc = CheckOk /\ checked.si = CheckOk
    /\ checked.rc_more = CheckOk /\ checked.si_more = CheckOk

----------------------------------------------------------------------------
(* sequences of set_fsp, maximize_fsp, minimize_fsp and set_time_type *)

\* codec::mysql::MIN_FSP
MIN_FSP == 0

\* the longest sequence of calls on one value
MaxCalls == 3

\* Time::maximize_fsp
maximize_fsp(t) == set_fsp(t, MAX_FSP)

\* Time::minimize_fsp
minimize_fsp(t) == set_fsp(t, MIN_FSP)

SetterCtxs == { EvalContext({}, {}, tz) : tz \in {TZ_UTC, TZ_EAST} }

\* a Date given with and without a time of day, DateTimes and Timestamps
\* of fsp 0, 3 and 6
SetterArgs ==
    { TimeArgs(2019, 12, 31, 0, 0, 0, 0, 0, "Date"),
      TimeArgs(2019, 12, 31, 23, 59, 59, 999999, 6, "Date"),
      TimeArgs(2019, 12, 31, 23, 59, 59, 999999, 6, "DateTime"),
      TimeArgs(2019, 12, 31, 12, 30, 45, 500000, 3, "DateTime"),
      TimeArgs(2019, 12, 31, 12, 30, 45, 0, 0, "DateTime"),
      TimeArgs(2019, 12, 31, 23, 59, 59, 999999, 6, "Timestamp"),
      TimeArgs(2019, 12, 31, 12, 30, 45, 0, 0, "Timestamp") }

\* the u8 given to set_fsp
SetFspInputs == {0, 3, 6, 7, U8_MAX}

InitSetters ==
    /\ LockIdle
    /\ ctx \in SetterCtxs
    /\ aux \in SetterArgs
    /\ time = NoTime
    /\ out = NoOut
    /\ pc = "args"

\* calls made on the value so far
Calls == IF pc = "set" THEN out.n ELSE 0

\* the type last set successfully: by Time::new, then by set_time_type
LastType == IF pc = "set" THEN out.last ELSE aux.time_type

\* time.set_fsp(f)
SetFsp ==
    /\ pc \in {"valid", "set"}
    /\ Calls < MaxCalls
    /\ \E f \in SetFspInputs :
          /\ time' = set_fsp(time, f)
          /\ out' = [ tag |-> "Ok", op |-> "set_fsp", arg |-> f, before |-> time,
                      n |-> Calls + 1, last |-> LastType ]
    /\ pc' = "set"
    /\ UNCHANGED <<lock, buf, parsed, checked, ctx, aux>>

\* time.maximize_fsp()
MaximizeFsp ==
    /\ pc \in {"valid", "set"}
    /\ Calls < MaxCalls
    /\ time' = maximize_fsp(time)
    /\ out' = [ tag |-> "Ok", op |-> "maximize_fsp", arg |-> MAX_FSP, before |-> time,
                n |-> Calls + 1, last |-> LastType ]
    /\ pc' = "set"
    /\ UNCHANGED <<lock, buf, parsed, checked, ctx, aux>>

\* time.minimize_fsp()
MinimizeFsp ==
    /\ pc \in {"valid", "set"}
    /\ Calls < MaxCalls
    /\ time' = minimize_fsp(time)
    /\ out' = [ tag |-> "Ok", op |-> "minimize_fsp", arg |-> MIN_FSP, before |-> time,
                n |-> Calls + 1, last |-> LastType ]
    /\ pc' = "set"
    /\ UNCHANGED <<lock, buf, parsed, checked, ctx, aux>>

\* time.set_time_type(time_type): the Result, and self as the call leaves it
SetTimeTypeInSequence ==
    /\ pc \in {"valid", "set"}
    /\ Calls < MaxCalls
    /\ \E time_type \in TimeType :
          /\ time' = set_time_type(time, time_type).val
          /\ out' = [ tag |-> set_time_type(time, time_type).tag, op |-> "set_time_type",
                      arg |-> time_type, before |-> time, n |-> Calls + 1,
                      last |-> IF set_time_type(time, time_type).tag = "Ok"
                               THEN time_type ELSE LastType ]
    /\ pc' = "set"
    /\ UNCHANGED <<lock, buf, parsed, checked, ctx, aux>>

NextSetters ==
    \/ New
    \/ SetFsp
    \/ MaximizeFsp
    \/ MinimizeFsp
    \/ SetTimeTypeInSequence

SpecSetters == InitSetters /\ [][NextSetters]_vars

\* the fsp_tt nibble is 0b1110, or an fsp of 0..=6 above the type bit
NibbleWellFormed(t) ==
    \/ t.fsp_tt = FSP_TT_DATE
    \/ /\ t.fsp_tt \div 2 \in 0..MAX_FSP
       /\ fsp(t) = t.fsp_tt \div 2
       /\ get_time_type(t) = (IF t.fsp_tt % 2 = 0 THEN "DateTime" ELSE "Timestamp")

SameYmd(a, b) == a.year = b.year /\ a.month = b.month /\ a.day = b.day

\* C30: after any sequence of set_fsp, maximize_fsp, minimize_fsp and
\* set_time_type on a validated Time the fsp_tt nibble is 0b1110 or holds
\* an fsp of 0..=6 with bit 0 the type, fsp() is at most 6 and
\* get_time_type() is the type last set successfully; set_fsp on a Date
\* changes nothing; set_time_type(Timestamp) on a Date or DateTime is an
\* error and leaves the value as it was; set_time_type(Date) on a DateTime
\* or Timestamp clears hour, minute, second, micro and fsp and keeps year,
\* month and day
C30_SettersKeepNibble ==
    pc \in {"valid", "set"} =>
        /\ NibbleWellFormed(time)
        /\ fsp(time) <= MAX_FSP
        /\ get_time_type(time) = LastType
        /\ pc = "set" =>
              /\ (out.op = "set_fsp" /\ get_time_type(out.before) = "Date")
                    => time = out.before
              /\ ( /\ out.op = "set_time_type"
                   /\ out.arg = "Timestamp"
                   /\ get_time_type(out.before) # "Timestamp" )
                    => out.tag = "Err" /\ time = out.before
              /\ ( /\ out.op = "set_time_type"
                   /\ out.arg = "Date"
                   /\ get_time_type(out.before) # "Date" )
                    => /\ out.tag = "Ok"
                       /\ get_time_type(time) = "Date"
                       /\ time.hour = 0 /\ time.minute = 0
                       /\ time.second = 0 /\ time.micro = 0
                       /\ fsp(time) = 0
                       /\ SameYmd(time, out.before)

\* set_time_type(Date), as the second call or later, on a Timestamp at
\* 23:59:59.999999 with fsp 6
C30_Witness ==
    /\ pc = "set"
    /\ out.n >= 2
    /\ out.op = "set_time_type"
    /\ out.arg = "Date"
    /\ out.tag = "Ok"
    /\ get_time_type(out.before) = "Timestamp"
    /\ out.before.hour = 23
    /\ fsp(out.before) = 6
    /\ get_time_type(time) = "Date"

====
